---- MODULE Spec2Model ----
(***************************************************************************)
(* Quota gate and billing-cycle engine of the AutoSEO service              *)
(* (src/autoseo-service: models.py, auth.py, tenant.py, app.py).           *)
(*                                                                         *)
(* The persistent state is the SQLite database: the tenants table, the     *)
(* usage_logs table and the billing_history table.  Every execute_query    *)
(* opens its own connection and commits, so one execute_query is one       *)
(* atomic step; a request handler is a sequence of such steps, and the     *)
(* position of each in-flight request is part of the state (variable w).   *)
(*                                                                         *)
(* Time.  An instant is an integer  day * SubsPerDay + sub,  where day is  *)
(* the number of days since 2023-01-01 and sub orders the instants of one  *)
(* day.  ISO-8601 strings of one format compare as the instants do, so     *)
(* the string comparisons of the code are integer comparisons here.        *)
(***************************************************************************)
EXTENDS Integers, Sequences, FiniteSets, Bags, TLC

\* ------------------------------------------------------------------ bounds

\* Sub-day instants: the clock readings of one day that can be told apart.
SubsPerDay == 3

\* The catalog's allowances are 100 / 1000 / 10000 requests per cycle
\* (models.py:131-133, tenant.py:21,30,39).  The gate and the rollover use an
\* allowance only in comparisons with, and differences from, a usage count, so
\* the model scales them down, keeping their order.
FreeLimit == 2

\* Usage rows one tenant may hold before further requests are refused a start.
MaxEvents == 4

\* Billing rows the database may hold before further rollovers are refused a start.
MaxRecords == 3

\* The last day (counted from 2023-01-01) on which a registration is tried in
\* the runs over the calendar.
CalDays == 800

\* ---------------------------------------------------------------- calendar

\* SQL NULL / Python None in a date column.
Null == -1

Max(a, b) == IF a > b THEN a ELSE b

Min(a, b) == IF a < b THEN a ELSE b

IsLeap(y) == (y % 4 = 0 /\ y % 100 # 0) \/ y % 400 = 0

\* calendar.monthrange(year, month)[1]
DaysInMonth(y, m) ==
    IF m = 2 THEN (IF IsLeap(y) THEN 29 ELSE 28)
    ELSE IF m \in {4, 6, 9, 11} THEN 30 ELSE 31

DaysInYear(y) == IF IsLeap(y) THEN 366 ELSE 365

RECURSIVE DaysBeforeYear(_)
DaysBeforeYear(y) == IF y <= 2023 THEN 0 ELSE DaysBeforeYear(y - 1) + DaysInYear(y - 1)

RECURSIVE DaysBeforeMonth(_, _)
DaysBeforeMonth(y, m) == IF m <= 1 THEN 0 ELSE DaysBeforeMonth(y, m - 1) + DaysInMonth(y, m - 1)

\* The day number of the calendar date y-m-d.
DayOrd(y, m, d) == DaysBeforeYear(y) + DaysBeforeMonth(y, m) + (d - 1)

RECURSIVE YearOfDay(_, _)
YearOfDay(n, y) == IF n < DaysInYear(y) THEN y ELSE YearOfDay(n - DaysInYear(y), y + 1)

RECURSIVE MonthOfDay(_, _, _)
MonthOfDay(n, y, m) == IF n < DaysInMonth(y, m) THEN m ELSE MonthOfDay(n - DaysInMonth(y, m), y, m + 1)

\* The calendar date of day number n, as [y, m, d].
DateOfDay(n) ==
    LET y == YearOfDay(n, 2023)
        r == n - DaysBeforeYear(y)
        m == MonthOfDay(r, y, 1)
    IN  [y |-> y, m |-> m, d |-> r - DaysBeforeMonth(y, m) + 1]

\* datetime.fromisoformat / isoformat: an instant and its date and time of day.
DayOf(i) == i \div SubsPerDay

SubOf(i) == i % SubsPerDay

At(y, m, d) == DayOrd(y, m, d) * SubsPerDay

\* timestamp[:7], strftime('%Y-%m'): the YYYY-MM tag of an instant.
CycleTag(i) == LET c == DateOfDay(DayOf(i)) IN c.y * 100 + c.m

\* timedelta(days=90)
RETENTION_DAYS == 90

\* The exception str.replace(year=...) raises for a date that does not exist.
ValueError == Null - 1

\* A cycle of thirty days, whatever the month.
ThirtyDaysLater(cycle_start, cycle_type) == cycle_start + 30 * SubsPerDay

\* get_next_billing_date(cycle_start, cycle_type): the same day and time of day
\* one month later, the day clamped to the target month's length; for any
\* other cycle type the same month and day one year later, which raises
\* ValueError when that date does not exist (29 February).
get_next_billing_date(cycle_start, cycle_type) ==
    LET c == DateOfDay(DayOf(cycle_start))
        month == IF c.m + 1 > 12 THEN 1 ELSE c.m + 1
        year == IF c.m + 1 > 12 THEN c.y + 1 ELSE c.y
        day == Min(c.d, DaysInMonth(year, month))
    IN  IF cycle_type = "monthly"
        THEN At(year, month, day) + SubOf(cycle_start)
        ELSE IF c.d > DaysInMonth(c.y + 1, c.m)
             THEN ValueError
             ELSE At(c.y + 1, c.m, c.d) + SubOf(cycle_start)

\* The page cap of the free plan (PLAN_LIMITS max_pages_per_audit 50, scaled);
\* pro and enterprise allow one and two pages more.
FreePages == 2

\* The site cap of the free plan (PLAN_LIMITS max_sites 3, scaled); pro and
\* enterprise allow one and two sites more.
FreeSites == 1

\* The largest overage of a closed cycle in the runs that compute charges.
MaxOverage == 240

\* ------------------------------------------------------------------- state

\* Tenant ids (uuid4 values) and the workers that serve requests.
TenantIds == {"t1", "t2"}

Workers == {"w1", "w2"}

\* The days on which the clock is read: a registration a year before the leap
\* day, the registration of scenario S1, a day of the next calendar month
\* inside that cycle, the day after its end, and the leap day.
Days == {DayOrd(2023, 2, 20), DayOrd(2024, 1, 10), DayOrd(2024, 2, 5),
         DayOrd(2024, 2, 11), DayOrd(2024, 2, 29)}

\* The later days of the runs with plan changes: the registration day of
\* scenario S1 and the day after that cycle's end.
PlanDays == {DayOrd(2024, 1, 10), DayOrd(2024, 2, 11)}

\* The later day of the concurrent runs: a monthly cycle opened on the first
\* day has ended by then.
ConcDays == {DayOrd(2024, 2, 11)}

BILLING_CYCLES == {"monthly", "yearly"}

SUBSCRIPTION_STATUS == {"active", "past_due", "canceled", "trial"}

\* PLAN_LIMITS[plan]['rate_limit'], unknown plans resolving to 'free'.
PlanRateLimit(plan) ==
    CASE plan = "pro" -> FreeLimit + 1
      [] plan = "enterprise" -> FreeLimit + 2
      [] OTHER -> FreeLimit

\* The plans tenants are registered with.
RegPlans == {"free"}

VARIABLES
    now,              \* the clock: what datetime.now() returns
    tenants,          \* table tenants: id -> row
    usage_logs,       \* table usage_logs: a bag of rows (the uuid key is the multiplicity)
    billing_history,  \* table billing_history: a bag of rows
    w,                \* per worker: the request it serves and its position in it
    issued,           \* per tenant: the credentials its clients were handed, the latest last
    sites,            \* table sites: a bag of rows
    tasks,            \* the background tasks queued by add_task: a bag of run_audit calls
    audits            \* table audits: a bag of rows

vars == <<now, tenants, usage_logs, billing_history, w, issued, sites, tasks, audits>>

\* generate_api_key: "aseo_" and a random token; the token issued to tenant t
\* is named after t.  A credential without the prefix is malformed.
generate_api_key(t) == [prefix |-> "aseo_", token |-> t]

Credentials == {generate_api_key(t) : t \in TenantIds} \cup {[prefix |-> "", token |-> "x"]}

\* hash_api_key: sha256 of the credential, a one-way injective digest.
hash_api_key(k) == <<"sha256", k.prefix, k.token>>

NoSnap == [billing_start |-> Null, billing_end |-> Null, rate_limit |-> Null, billing_cycle |-> "none"]

NoPre == [exp |-> {}, hist |-> EmptyBag, rows |-> [t \in {} |-> 0]]

NoAnalysis == [score |-> Null, issues |-> <<>>]

\* The state of a Crawler before crawl is called.
NoCrawl == [site |-> <<>>, start |-> <<>>, domain |-> "none", to_visit |-> {}, visited |-> {},
            results |-> <<>>, fetched |-> <<>>]

NoWas == [audit_count |-> Null, audits |-> Null, events |-> Null, usage |-> Null]

IdleW == [pc |-> "idle", kind |-> "none", key |-> [prefix |-> "", token |-> "x"],
          t |-> "none", nowr |-> Null, snap |-> NoSnap, usage |-> Null,
          rl |-> <<>>, ret |-> "none", rolled |-> FALSE, todo |-> {}, pre |-> NoPre,
          resp |-> {}, url |-> "none", email |-> "none",
          site_id |-> Null, pages |-> <<>>, analysis |-> NoAnalysis, audit_id |-> Null,
          max_pages |-> Null, fetch |-> "none", raised |-> "none", was |-> NoWas,
          crawl |-> NoCrawl, deleted |-> <<>>, plan |-> "none"]

\* SELECT COUNT(*) FROM <table> WHERE ...: hit is the set of rows the WHERE selects.
CountRows(table, hit) ==
    BagCardinality([r \in hit \cap DOMAIN table |-> table[r]])

\* DELETE FROM <table> WHERE ...
DeleteRows(table, hit) ==
    [r \in DOMAIN table \ hit |-> table[r]]

\* INSERT INTO <table> one row.
InsertRow(table, r) == table (+) SetToBag({r})

\* The contact addresses registrations name; Email(t) is the address the
\* registration that makes tenant t names unless it is given another.
Emails == {"a@x", "b@x"}

Email(t) == IF t = "t1" THEN "a@x" ELSE "b@x"

\* The tenants table has email UNIQUE (models.py:27): an INSERT of a row with
\* this email raises IntegrityError.
EmailTaken(email) == \E u \in DOMAIN tenants : tenants[u].email = email

\* The client of tenant t is handed credential k by the call that made it.
Handed(t, k) ==
    [u \in DOMAIN issued \cup {t} |->
        IF u = t
        THEN (IF t \in DOMAIN issued THEN issued[t] ELSE <<>>) \o <<k>>
        ELSE issued[u]]

Init ==
    /\ now = At(2023, 2, 20)
    /\ tenants = [t \in {} |-> 0]
    /\ usage_logs = EmptyBag
    /\ billing_history = EmptyBag
    /\ w = [p \in Workers |-> IdleW]
    /\ issued = [t \in {} |-> <<>>]
    /\ sites = EmptyBag
    /\ tasks = EmptyBag
    /\ audits = EmptyBag

Quiet == \A p \in Workers : w[p].pc = "idle"

\* The clock moves on to a later day.
Tick(days) ==
    /\ \E d \in days : d > DayOf(now) /\ now' = d * SubsPerDay
    /\ UNCHANGED <<tenants, usage_logs, billing_history, w, issued, sites, tasks, audits>>

\* tenant.py create_tenant: INSERT the row (usage_count 0, the plan's allowance,
\* status 'active', the digest of a fresh credential), then
\* initialize_tenant_billing: billing_start = last_reset = now and billing_end =
\* get_next_billing_date.  When that raises, the row keeps its NULL dates.
\* The credential is returned only after both, so no request can name the
\* tenant in between and the two statements are one step here.
create_tenant(t, plan_type, billing_cycle) ==
    /\ t \notin DOMAIN tenants
    /\ ~EmailTaken(Email(t))
    /\ LET end == get_next_billing_date(now, billing_cycle)
           ok == end # ValueError
           row == [plan_type |-> plan_type, billing_cycle |-> billing_cycle,
                   usage_count |-> 0, rate_limit |-> PlanRateLimit(plan_type),
                   billing_start |-> IF ok THEN now ELSE Null,
                   billing_end |-> IF ok THEN end ELSE Null,
                   last_reset |-> IF ok THEN now ELSE Null,
                   subscription_status |-> "active", email |-> Email(t),
                   api_key |-> hash_api_key(generate_api_key(t))]
       IN  /\ tenants' = [u \in DOMAIN tenants \cup {t} |-> IF u = t THEN row ELSE tenants[u]]
           /\ issued' = IF ok THEN Handed(t, generate_api_key(t)) ELSE issued
    /\ UNCHANGED <<now, usage_logs, billing_history, w, sites, tasks, audits>>

\* tenant.py update_tenant(tenant_id, {'subscription_status': status})
update_tenant(t, status) ==
    /\ t \in DOMAIN tenants
    /\ tenants[t].subscription_status # status
    /\ tenants' = [tenants EXCEPT ![t].subscription_status = status]
    /\ UNCHANGED <<now, usage_logs, billing_history, w, issued, sites, tasks, audits>>

\* ---------------------------------------------------------------- requests

Set(p, r) == w' = [w EXCEPT ![p] = r]

\* Rows of tenant t in usage_logs, and billing rows in the database.
EventCount(t) == CountRows(usage_logs, {r \in DOMAIN usage_logs : r.tenant_id = t})

\* Where check_and_reset_usage returns to: get_tenant_by_api_key (the gate) or
\* the loop of manual_reset.
AfterReset(p) == IF w[p].kind = "reset" THEN "sweep" ELSE "g_get"

\* app.py get_tenant -> auth.py verify_api_key, lines 17-18: a request with
\* credential key arrives; a missing or malformed credential returns None.
\* (A tenant whose registration raised has NULL cycle dates, and a request in
\* its name ends in fromisoformat(None) at models.py:330: such requests, and
\* requests beyond the bounds, are not started.)
BeginGate(p, key) ==
    /\ w[p].pc = "idle"
    /\ BagCardinality(billing_history) < MaxRecords
    /\ \A t \in DOMAIN tenants :
          tenants[t].api_key = hash_api_key(key) =>
             /\ tenants[t].billing_end # Null
             /\ EventCount(t) + Cardinality({q \in Workers : w[q].t = t /\ w[q].kind = "gate"}) < MaxEvents
    /\ IF key.prefix # "aseo_"
       THEN Set(p, [IdleW EXCEPT !.pc = "done", !.kind = "gate", !.key = key, !.ret = "none"])
       ELSE Set(p, [IdleW EXCEPT !.pc = "lookup", !.kind = "gate", !.key = key])
    /\ UNCHANGED <<now, tenants, usage_logs, billing_history, issued, sites, tasks, audits>>

\* models.py get_tenant_by_api_key, lines 305-314: SELECT id WHERE api_key = digest.
Lookup(p) ==
    /\ w[p].pc = "lookup"
    /\ LET found == {t \in DOMAIN tenants : tenants[t].api_key = hash_api_key(w[p].key)}
       IN  IF found = {}
           THEN Set(p, [w[p] EXCEPT !.pc = "done", !.ret = "none"])
           ELSE Set(p, [w[p] EXCEPT !.pc = "cr_read", !.t = CHOOSE t \in found : TRUE])
    /\ UNCHANGED <<now, tenants, usage_logs, billing_history, issued, sites, tasks, audits>>

\* The clock has moved on since a usage row of tenant t was stamped with its
\* present reading: the next reading is a later instant of the same day.
ClockRead(t) ==
    IF \E r \in DOMAIN usage_logs : r.tenant_id = t /\ r.timestamp >= now
    THEN now + 1
    ELSE now

\* check_and_reset_usage, lines 208-215: read the tenant row and the clock;
\* return unless now > billing_end.
CrRead(p) ==
    /\ w[p].pc = "cr_read"
    /\ LET t == w[p].t IN
       IF t \notin DOMAIN tenants \/ tenants[t].billing_end = Null
       THEN /\ Set(p, [w[p] EXCEPT !.pc = AfterReset(p)])
            /\ now' = now
       ELSE IF now > tenants[t].billing_end
       THEN /\ DayOf(ClockRead(t)) = DayOf(now)
            /\ now' = ClockRead(t)
            /\ Set(p, [w[p] EXCEPT !.pc = "cr_count", !.nowr = ClockRead(t),
                          !.snap = [billing_start |-> tenants[t].billing_start,
                                    billing_end |-> tenants[t].billing_end,
                                    rate_limit |-> tenants[t].rate_limit,
                                    billing_cycle |-> tenants[t].billing_cycle]])
       ELSE /\ Set(p, [w[p] EXCEPT !.pc = AfterReset(p)])
            /\ now' = now
    /\ UNCHANGED <<tenants, usage_logs, billing_history, issued, sites, tasks, audits>>

\* get_cycle_usage(tenant_id, cycle), lines 245-256: the rows of the tenant
\* whose billing_cycle tag equals cycle.
get_cycle_usage(t, cycle) ==
    CountRows(usage_logs, {r \in DOMAIN usage_logs : r.tenant_id = t /\ r.billing_cycle = cycle})

\* check_and_reset_usage, lines 216-217: cycle = billing_start[:7].
CrCount(p) ==
    /\ w[p].pc = "cr_count"
    /\ Set(p, [w[p] EXCEPT !.pc = "cr_insert",
                  !.usage = get_cycle_usage(w[p].t, CycleTag(w[p].snap.billing_start))])
    /\ UNCHANGED <<now, tenants, usage_logs, billing_history, issued, sites, tasks, audits>>

\* The difference usage - rate_limit taken without the floor at zero.
RawDifference(usage, rate_limit) == usage - rate_limit

\* check_and_reset_usage, line 218.
Overage(usage, rate_limit) == Max(0, usage - rate_limit)

\* The rollover without its billing row.
CrSkipInsert(p) ==
    /\ w[p].pc = "cr_insert"
    /\ Set(p, [w[p] EXCEPT !.pc = "cr_update"])
    /\ UNCHANGED <<now, tenants, usage_logs, billing_history, issued, sites, tasks, audits>>

\* check_and_reset_usage, lines 220-227: the billing row of the closing cycle;
\* status takes the column default 'pending'.
CrInsert(p) ==
    /\ w[p].pc = "cr_insert"
    /\ billing_history' = InsertRow(billing_history,
          [tenant_id |-> w[p].t,
           cycle_start |-> w[p].snap.billing_start,
           cycle_end |-> w[p].snap.billing_end,
           usage |-> w[p].usage,
           overage |-> Overage(w[p].usage, w[p].snap.rate_limit),
           status |-> "pending"])
    /\ Set(p, [w[p] EXCEPT !.pc = "cr_update"])
    /\ UNCHANGED <<now, tenants, usage_logs, issued, sites, tasks, audits>>

\* check_and_reset_usage, lines 229-237: the new cycle starts at the clock
\* reading of line 212; get_next_billing_date may raise, which ends the request.
CrUpdate(p) ==
    /\ w[p].pc = "cr_update"
    /\ LET t == w[p].t
           new_end == get_next_billing_date(w[p].nowr, w[p].snap.billing_cycle)
       IN  IF new_end = ValueError
           THEN /\ Set(p, [w[p] EXCEPT !.pc = "done", !.ret = "error"])
                /\ UNCHANGED tenants
           ELSE /\ tenants' = IF t \in DOMAIN tenants
                              THEN [tenants EXCEPT ![t].billing_start = w[p].nowr,
                                                   ![t].billing_end = new_end,
                                                   ![t].last_reset = w[p].nowr,
                                                   ![t].usage_count = 0]
                              ELSE tenants
                /\ Set(p, [w[p] EXCEPT !.pc = "cr_prune", !.rolled = TRUE])
    /\ UNCHANGED <<now, usage_logs, billing_history, issued, sites, tasks, audits>>

\* check_and_reset_usage, lines 239-243: retention.
CrPrune(p) ==
    /\ w[p].pc = "cr_prune"
    /\ LET three_months_ago == w[p].nowr - RETENTION_DAYS * SubsPerDay
       IN  usage_logs' = DeleteRows(usage_logs,
              {r \in DOMAIN usage_logs : r.tenant_id = w[p].t /\ r.timestamp < three_months_ago})
    /\ Set(p, [w[p] EXCEPT !.pc = AfterReset(p), !.nowr = Null, !.snap = NoSnap, !.usage = Null])
    /\ UNCHANGED <<now, tenants, billing_history, issued, sites, tasks, audits>>

\* get_tenant_by_api_key, line 313: get_tenant, the row the gate returns.
GGet(p) ==
    /\ w[p].pc = "g_get"
    /\ IF w[p].t \in DOMAIN tenants
       THEN Set(p, [w[p] EXCEPT !.pc = "rl_read"])
       ELSE Set(p, [w[p] EXCEPT !.pc = "done", !.ret = "none"])
    /\ UNCHANGED <<now, tenants, usage_logs, billing_history, issued, sites, tasks, audits>>

\* Python's `not x` for a tuple x: true only of the empty tuple.
PyNot(x) == Len(x) = 0

\* auth.py verify_api_key, lines 30-35: `if not check_rate_limit(...)`, applied
\* to the (allowed, info) pair check_rate_limit returns.
GateDenies(rl) == PyNot(rl)

\* Where the gate goes with the result rl of check_rate_limit.
Verdict(p, rl) ==
    IF GateDenies(rl)
    THEN [w[p] EXCEPT !.pc = "done", !.rl = rl, !.ret = "rate_limit_exceeded"]
    ELSE [w[p] EXCEPT !.pc = "log_insert", !.rl = rl, !.snap = NoSnap]

\* check_rate_limit, lines 318-326: get_tenant and the subscription test.
RlRead(p) ==
    /\ w[p].pc = "rl_read"
    /\ LET t == w[p].t IN
       IF t \notin DOMAIN tenants
       THEN Set(p, Verdict(p, <<FALSE, "tenant_not_found">>))
       ELSE IF tenants[t].subscription_status # "active"
       THEN Set(p, Verdict(p, <<FALSE, "subscription_inactive">>))
       ELSE Set(p, [w[p] EXCEPT !.pc = "rl_count",
                       !.snap = [NoSnap EXCEPT !.rate_limit = tenants[t].rate_limit,
                                               !.billing_end = tenants[t].billing_end]])
    /\ UNCHANGED <<now, tenants, usage_logs, billing_history, issued, sites, tasks, audits>>

\* check_rate_limit, lines 328-351: get_cycle_usage() counts the rows tagged
\* with the current calendar month (get_current_billing_cycle).
check_rate_limit(cycle_usage, rate_limit) ==
    IF cycle_usage >= rate_limit
    THEN <<FALSE, "rate_limit_exceeded">>
    ELSE <<TRUE, "ok">>

RlCount(p) ==
    /\ w[p].pc = "rl_count"
    /\ LET cycle_usage == get_cycle_usage(w[p].t, CycleTag(now))
       IN  Set(p, [Verdict(p, check_rate_limit(cycle_usage, w[p].snap.rate_limit))
                      EXCEPT !.usage = cycle_usage])
    /\ UNCHANGED <<now, tenants, usage_logs, billing_history, issued, sites, tasks, audits>>

\* The usage of tenant t's current cycle is below the allowance now in force.
WithinAllowance(t) ==
    /\ t \in DOMAIN tenants
    /\ CountRows(usage_logs, {r \in DOMAIN usage_logs :
                                 r.tenant_id = t /\ r.timestamp >= tenants[t].billing_start})
          < tenants[t].rate_limit

\* log_usage, lines 260-268: INSERT the usage row, tagged with the calendar
\* month of the clock.  (within is not a column: it is the history of the
\* row, whether the cycle's usage was below the allowance in force when the
\* row was appended.)
LogInsert(p) ==
    /\ w[p].pc = "log_insert"
    /\ usage_logs' = InsertRow(usage_logs,
          [tenant_id |-> w[p].t, action |-> "api_call",
           timestamp |-> now, billing_cycle |-> CycleTag(now),
           within |-> WithinAllowance(w[p].t)])
    /\ Set(p, [w[p] EXCEPT !.pc = "log_update"])
    /\ UNCHANGED <<now, tenants, billing_history, issued, sites, tasks, audits>>

\* UPDATE tenants SET usage_count = usage_count + 1 WHERE id = t
BumpUsage(t) ==
    IF t \in DOMAIN tenants
    THEN [tenants EXCEPT ![t].usage_count = @ + 1]
    ELSE tenants

\* log_usage, lines 270-273.
LogUpdate(p) ==
    /\ w[p].pc = "log_update"
    /\ tenants' = BumpUsage(w[p].t)
    /\ Set(p, [w[p] EXCEPT !.pc = "incr"])
    /\ UNCHANGED <<now, usage_logs, billing_history, issued, sites, tasks, audits>>

\* models.increment_usage(tenant_id), called at auth.py:39.  Its body lies
\* beyond the end of the available models.py; by its name and its call site
\* it adds one to the tenant's usage counter.
increment_usage(t) == BumpUsage(t)

\* auth.py verify_api_key, lines 39-41: increment_usage, then return the
\* tenant row read at line 24.
Incr(p) ==
    /\ w[p].pc = "incr"
    /\ tenants' = increment_usage(w[p].t)
    /\ Set(p, [w[p] EXCEPT !.pc = "done", !.ret = "tenant"])
    /\ UNCHANGED <<now, usage_logs, billing_history, issued, sites, tasks, audits>>

\* The response is sent; the worker is free again.
Return(p) ==
    /\ w[p].pc = "done"
    /\ Set(p, IdleW)
    /\ UNCHANGED <<now, tenants, usage_logs, billing_history, issued, sites, tasks, audits>>

\* app.py manual_reset, lines 320-328: the admin sweep starts and lists the
\* tenants.  (pre records the database at that point, for the statements
\* about what the sweep changed.)
BeginReset(p) ==
    /\ w[p].pc = "idle"
    /\ BagCardinality(billing_history) < MaxRecords
    /\ Set(p, [IdleW EXCEPT !.pc = "sweep", !.kind = "reset", !.todo = DOMAIN tenants,
                  !.pre = [exp |-> {t \in DOMAIN tenants :
                                       tenants[t].billing_end # Null /\ now > tenants[t].billing_end},
                           hist |-> billing_history,
                           rows |-> tenants]])
    /\ UNCHANGED <<now, tenants, usage_logs, billing_history, issued, sites, tasks, audits>>

\* app.py manual_reset, lines 330-333: check_and_reset_usage for each listed
\* tenant, in the order the SELECT without ORDER BY happened to return.
SweepNext(p) ==
    /\ w[p].pc = "sweep"
    /\ IF w[p].todo = {}
       THEN Set(p, [w[p] EXCEPT !.pc = "done", !.ret = "ok", !.t = "none"])
       ELSE \E t \in w[p].todo :
               Set(p, [w[p] EXCEPT !.pc = "cr_read", !.t = t, !.todo = @ \ {t}])
    /\ UNCHANGED <<now, tenants, usage_logs, billing_history, issued, sites, tasks, audits>>

\* The request dies where it stands: the worker process is killed, or the
\* next statement's persistence call raises and execute_query rolls that one
\* statement back.
Abort(p) ==
    /\ w[p].pc \notin {"idle", "done"}
    /\ Set(p, IdleW)
    /\ UNCHANGED <<now, tenants, usage_logs, billing_history, issued, sites, tasks, audits>>

\* PLAN_LIMITS: the plan ids of the catalog.
PlanIds == {"free", "pro", "enterprise"}

\* The plan ids and cycle kinds a plan-change request may name; "gold" is not
\* in the catalog and "none" is an omitted billing_cycle.
PlanRequests == {"free", "pro", "gold"}

CycleRequests == BILLING_CYCLES \cup {"none"}

\* A plan change that also zeroes the usage counter.
ZeroingSetPlan(t, new_plan, billing_cycle) ==
    [tenants EXCEPT ![t].plan_type = new_plan,
                    ![t].rate_limit = PlanRateLimit(new_plan),
                    ![t].usage_count = 0]

\* tenant.py update_tenant as change_tenant_plan calls it: plan_type and, when
\* supplied, billing_cycle (the 'rate_limit' key is not an allowed field and is
\* dropped), then rate_limit from PLAN_LIMITS.
SetPlan(t, new_plan, billing_cycle) ==
    [tenants EXCEPT ![t].plan_type = new_plan,
                    ![t].billing_cycle = IF billing_cycle \in BILLING_CYCLES THEN billing_cycle ELSE @,
                    ![t].rate_limit = PlanRateLimit(new_plan)]

\* tenant.py change_tenant_plan: False, and no change, for a plan that is not
\* in PLAN_LIMITS.
change_tenant_plan(t, new_plan, billing_cycle) ==
    /\ t \in DOMAIN tenants
    /\ tenants' = IF new_plan \in PlanIds THEN SetPlan(t, new_plan, billing_cycle) ELSE tenants
    /\ UNCHANGED <<now, usage_logs, billing_history, w, issued, sites, tasks, audits>>

\* models.update_tenant_plan, called at app.py:307.  Its body lies beyond the
\* end of the available models.py; it is taken to do what its twin
\* tenant.py change_tenant_plan does.
update_tenant_plan(t, plan_type, billing_cycle) == SetPlan(t, plan_type, billing_cycle)

\* models.py initialize_tenant_billing applied to table tbl: the cycle of
\* tenant t restarts at instant start; nothing is written when
\* get_next_billing_date raises.
initialize_tenant_billing(tbl, t, start, billing_cycle) ==
    LET end == get_next_billing_date(start, billing_cycle)
    IN  IF end = ValueError
        THEN tbl
        ELSE [tbl EXCEPT ![t].billing_start = start,
                         ![t].billing_end = end,
                         ![t].last_reset = start,
                         ![t].billing_cycle = billing_cycle]

\* app.py update_plan, lines 297-317: update_tenant_plan, 400 when it fails,
\* then initialize_tenant_billing whenever a billing_cycle was supplied.
update_plan(t, plan_type, billing_cycle) ==
    /\ t \in DOMAIN tenants
    /\ DayOf(ClockRead(t)) = DayOf(now)
    /\ now' = ClockRead(t)
    /\ tenants' = IF plan_type \notin PlanIds
                  THEN tenants
                  ELSE IF billing_cycle \in BILLING_CYCLES
                  THEN initialize_tenant_billing(update_tenant_plan(t, plan_type, billing_cycle),
                                                 t, ClockRead(t), billing_cycle)
                  ELSE update_tenant_plan(t, plan_type, billing_cycle)
    /\ UNCHANGED <<usage_logs, billing_history, w, issued, sites, tasks, audits>>

\* The credential string itself, as a column holds it when it is written
\* without hash_api_key.
api_key_text(k) == <<k.prefix, k.token>>

\* The credentials generate_api_key makes for a rotation: fresh random tokens.
RotatedKeys == {[prefix |-> "aseo_", token |-> s] : s \in {"r1", "r2"}}

\* Every credential a request may carry.
AllCredentials == Credentials \cup RotatedKeys

\* UPDATE tenants SET api_key = <digest of k> WHERE id = t
Rotate(t, k) == [tenants EXCEPT ![t].api_key = hash_api_key(k)]

\* app.py create_tenant (POST /tenants), lines 141-184: the allowance from the
\* plans table (100 for an unknown plan), INSERT the row with the api_key
\* column bound to api_key (line 160), then initialize_tenant_billing; the
\* response carries api_key.  The INSERT of an email that is already there
\* raises IntegrityError: execute_query rolls back and raises again, nothing
\* in app.py catches it, and the request ends in 500.  When
\* initialize_tenant_billing raises, the row keeps its NULL dates and the
\* request ends in 500 as well.
post_tenants(p, t, email, plan_type, billing_cycle) ==
    /\ w[p].pc = "idle"
    /\ t \notin DOMAIN tenants
    /\ LET api_key == generate_api_key(t)
           end == get_next_billing_date(now, billing_cycle)
           ok == end # ValueError
           row == [plan_type |-> plan_type, billing_cycle |-> billing_cycle,
                   usage_count |-> 0, rate_limit |-> PlanRateLimit(plan_type),
                   billing_start |-> IF ok THEN now ELSE Null,
                   billing_end |-> IF ok THEN end ELSE Null,
                   last_reset |-> IF ok THEN now ELSE Null,
                   subscription_status |-> "active", email |-> email,
                   api_key |-> api_key_text(api_key)]
       IN  IF EmailTaken(email)
           THEN /\ Set(p, [IdleW EXCEPT !.pc = "done", !.kind = "post_tenants",
                              !.email = email, !.ret = "500"])
                /\ UNCHANGED <<tenants, issued>>
           ELSE /\ tenants' = [u \in DOMAIN tenants \cup {t} |-> IF u = t THEN row ELSE tenants[u]]
                /\ issued' = IF ok THEN Handed(t, api_key) ELSE issued
                /\ Set(p, [IdleW EXCEPT !.pc = "done", !.kind = "post_tenants", !.t = t,
                              !.email = email, !.ret = IF ok THEN "200" ELSE "500"])
    /\ UNCHANGED <<now, usage_logs, billing_history, sites, tasks, audits>>

\* tenant.py regenerate_api_key, lines 323-333: a fresh credential, its digest
\* written over the stored one, the credential returned.  The UPDATE of an
\* unknown id changes no row.
regenerate_api_key(t, new_api_key) ==
    /\ \A u \in DOMAIN issued : \A i \in 1..Len(issued[u]) : issued[u][i] # new_api_key
    /\ tenants' = IF t \in DOMAIN tenants THEN Rotate(t, new_api_key) ELSE tenants
    /\ issued' = Handed(t, new_api_key)
    /\ UNCHANGED <<now, usage_logs, billing_history, w, sites, tasks, audits>>

\* auth.py create_api_key_for_tenant, lines 43-53: the same statement.
create_api_key_for_tenant(t, api_key) ==
    /\ \A u \in DOMAIN issued : \A i \in 1..Len(issued[u]) : issued[u][i] # api_key
    /\ tenants' = IF t \in DOMAIN tenants THEN Rotate(t, api_key) ELSE tenants
    /\ issued' = Handed(t, api_key)
    /\ UNCHANGED <<now, usage_logs, billing_history, w, sites, tasks, audits>>

\* tenant.py PLAN_LIMITS, and the rows init_db inserts into table plans
\* (models.py:130-134): the allowance and the price of a block of overage.
PLAN_LIMITS ==
    [free |-> [rate_limit |-> 100, overage_rate |-> 0],
     pro |-> [rate_limit |-> 1000, overage_rate |-> 5],
     enterprise |-> [rate_limit |-> 10000, overage_rate |-> 2]]

\* SELECT overage_rate FROM plans WHERE id = plan_type; 0 when there is no row.
OverageRate(plan_type) ==
    IF plan_type \in DOMAIN PLAN_LIMITS THEN PLAN_LIMITS[plan_type].overage_rate ELSE 0

\* Amounts of money are counted in hundredths of the currency unit, so that
\* the quotient of app.py:283 is exact.
Hundredths(units) == units * 100

\* tenant.py calculate_overage_charges, lines 575-600, for a cycle with this
\* usage: nothing within the allowance, otherwise one overage_rate for every
\* started block of 100.
OverageCharges(usage, rate_limit, plan_type) ==
    IF usage <= rate_limit
    THEN [usage |-> usage, limit |-> rate_limit, overage |-> 0, overage_blocks |-> 0,
          rate_per_block |-> 0, total_charge |-> Hundredths(0)]
    ELSE LET overage == usage - rate_limit
             plan == IF plan_type \in DOMAIN PLAN_LIMITS THEN PLAN_LIMITS[plan_type] ELSE PLAN_LIMITS["free"]
             overage_blocks == (overage + 99) \div 100
         IN  [usage |-> usage, limit |-> rate_limit, overage |-> overage,
              overage_blocks |-> overage_blocks, rate_per_block |-> plan.overage_rate,
              total_charge |-> Hundredths(overage_blocks * plan.overage_rate)]

\* tenant.py calculate_overage_charges(tenant_id, cycle), lines 564-600: the
\* tenant row, the usage rows tagged with the cycle, then the charge; {} for
\* an unknown tenant.
calculate_overage_charges(p, t, cycle) ==
    /\ w[p].pc = "idle"
    /\ Set(p, [IdleW EXCEPT !.pc = "done", !.kind = "overage", !.t = t, !.ret = "ok",
                  !.resp = IF t \in DOMAIN tenants
                           THEN {OverageCharges(get_cycle_usage(t, cycle), tenants[t].rate_limit,
                                                tenants[t].plan_type)}
                           ELSE {}])
    /\ UNCHANGED <<now, tenants, usage_logs, billing_history, issued, sites, tasks, audits>>

\* app.py get_billing_history, line 283: overage * overage_rate / 100.
overage_charge(overage, overage_rate) ==
    IF overage > 0 THEN overage * overage_rate ELSE Hundredths(0)

\* app.py get_billing_history (GET /billing/history), lines 262-295, once the
\* gate has returned the tenant: the tenant's billing rows, each with the
\* charge at the overage_rate of the tenant's present plan.
get_billing_history(p) ==
    /\ w[p].pc = "done" /\ w[p].kind = "gate" /\ w[p].ret = "tenant"
    /\ w[p].t \in DOMAIN tenants
    /\ Set(p, [w[p] EXCEPT !.kind = "billing_history", !.ret = "ok",
                  !.resp = {[cycle_start |-> h.cycle_start, usage |-> h.usage,
                             limit |-> tenants[w[p].t].rate_limit, overage |-> h.overage,
                             overage_charge |-> overage_charge(h.overage,
                                                   OverageRate(tenants[w[p].t].plan_type)),
                             status |-> h.status] :
                            h \in {r \in DOMAIN billing_history : r.tenant_id = w[p].t}}])
    /\ UNCHANGED <<now, tenants, usage_logs, billing_history, issued, sites, tasks, audits>>

\* The URLs a POST /sites request may name.
Urls == {"u1", "u2"}

\* SELECT id FROM sites WHERE tenant_id = t AND url = url
SitesOf(t, url) == {r \in DOMAIN sites : r.tenant_id = t /\ r.url = url}

\* app.py add_site (POST /sites), lines 196-204, once the gate has returned
\* the tenant: look for a site of the tenant with the URL; 400 "Site already
\* exists" when there is one.
AsSelect(p, url) ==
    /\ w[p].pc = "done" /\ w[p].kind = "gate" /\ w[p].ret = "tenant"
    /\ IF SitesOf(w[p].t, url) # {}
       THEN Set(p, [w[p] EXCEPT !.kind = "add_site", !.url = url, !.ret = "400"])
       ELSE Set(p, [w[p] EXCEPT !.kind = "add_site", !.url = url, !.pc = "as_insert"])
    /\ UNCHANGED <<now, tenants, usage_logs, billing_history, issued, sites, tasks, audits>>

\* add_site, lines 206-211: INSERT the site row under a fresh uuid.  The
\* table has UNIQUE(tenant_id, url) (models.py:58): when a row of the pair
\* is there by now the INSERT raises IntegrityError, execute_query rolls
\* back and raises again, nothing in app.py catches it, and the request ends
\* in 500.
AsInsert(p) ==
    /\ w[p].pc = "as_insert"
    /\ IF SitesOf(w[p].t, w[p].url) # {}
       THEN /\ Set(p, [w[p] EXCEPT !.pc = "done", !.ret = "500"])
            /\ UNCHANGED sites
       ELSE /\ sites' = InsertRow(sites, [id |-> BagCardinality(sites) + 1,
                                          tenant_id |-> w[p].t, url |-> w[p].url,
                                          status |-> "pending", last_audit |-> Null,
                                          last_score |-> Null, audit_count |-> 0])
            /\ Set(p, [w[p] EXCEPT !.pc = "as_log", !.site_id = BagCardinality(sites) + 1])
    /\ UNCHANGED <<now, tenants, usage_logs, billing_history, issued, tasks, audits>>

\* add_site, line 214: log_usage(tenant, 'add_site', site_id), its INSERT.
AsLog(p) ==
    /\ w[p].pc = "as_log"
    /\ usage_logs' = InsertRow(usage_logs,
          [tenant_id |-> w[p].t, action |-> "add_site",
           timestamp |-> now, billing_cycle |-> CycleTag(now),
           within |-> WithinAllowance(w[p].t)])
    /\ Set(p, [w[p] EXCEPT !.pc = "as_count"])
    /\ UNCHANGED <<now, tenants, billing_history, issued, sites, tasks, audits>>

\* add_site, lines 214-229: the UPDATE of log_usage, then add_task(run_audit,
\* site_id, url, tenant) and the 200 response.
AsCount(p) ==
    /\ w[p].pc = "as_count"
    /\ tenants' = BumpUsage(w[p].t)
    /\ tasks' = InsertRow(tasks, [site_id |-> w[p].site_id, url |-> w[p].url,
                                  tenant_id |-> w[p].t])
    /\ Set(p, [w[p] EXCEPT !.pc = "done", !.ret = "200"])
    /\ UNCHANGED <<now, usage_logs, billing_history, issued, sites, audits>>

add_site(p) ==
    \/ \E url \in Urls : AsSelect(p, url)
    \/ AsInsert(p) \/ AsLog(p) \/ AsCount(p)

\* PLAN_LIMITS[plan]['max_sites'], unknown plans resolving to 'free'.
PlanMaxSites(plan) ==
    CASE plan = "pro" -> FreeSites + 1
      [] plan = "enterprise" -> FreeSites + 2
      [] OTHER -> FreeSites

\* len(get_tenant_sites(tenant_id))
CurrentSites(t) == CountRows(sites, {r \in DOMAIN sites : r.tenant_id = t})

\* tenant.py can_add_site(tenant_id), lines 794-808.  No handler calls it.
can_add_site(t) ==
    IF t \notin DOMAIN tenants
    THEN <<FALSE, "Tenant not found">>
    ELSE IF CurrentSites(t) >= PlanMaxSites(tenants[t].plan_type)
    THEN <<FALSE, "Maximum sites limit reached">>
    ELSE <<TRUE, "OK">>

\* The site ids a request may name: those of the table and one that is not.
SiteIds == {r.id : r \in DOMAIN sites} \cup {0}

\* The site of that id, whoever owns it.
AnySite(id, t) == {r \in DOMAIN sites : r.id = id}

\* SELECT ... FROM sites WHERE id = id AND tenant_id = t
OwnedSite(id, t) == {r \in DOMAIN sites : r.id = id /\ r.tenant_id = t}

\* app.py list_sites (GET /sites), lines 396-415.
list_sites(p) ==
    /\ w[p].pc = "done" /\ w[p].kind = "gate" /\ w[p].ret = "tenant"
    /\ Set(p, [w[p] EXCEPT !.kind = "list_sites", !.ret = "200",
                  !.resp = {r \in DOMAIN sites : r.tenant_id = w[p].t}])
    /\ UNCHANGED <<now, tenants, usage_logs, billing_history, issued, sites, tasks, audits>>

\* app.py get_site (GET /sites/{site_id}), lines 417-439.
get_site(p, id) ==
    /\ w[p].pc = "done" /\ w[p].kind = "gate" /\ w[p].ret = "tenant"
    /\ Set(p, [w[p] EXCEPT !.kind = "get_site", !.site_id = id,
                  !.ret = IF OwnedSite(id, w[p].t) = {} THEN "404" ELSE "200",
                  !.resp = OwnedSite(id, w[p].t)])
    /\ UNCHANGED <<now, tenants, usage_logs, billing_history, issued, sites, tasks, audits>>

\* app.py get_site_audits (GET /sites/{site_id}/audits), lines 441-450: the
\* site of the tenant, 404 when there is none.
GaSelect(p, id) ==
    /\ w[p].pc = "done" /\ w[p].kind = "gate" /\ w[p].ret = "tenant"
    /\ IF OwnedSite(id, w[p].t) = {}
       THEN Set(p, [w[p] EXCEPT !.kind = "get_site_audits", !.site_id = id, !.ret = "404"])
       ELSE Set(p, [w[p] EXCEPT !.kind = "get_site_audits", !.site_id = id, !.pc = "ga_audits"])
    /\ UNCHANGED <<now, tenants, usage_logs, billing_history, issued, sites, tasks, audits>>

\* get_site_audits, lines 452-466: SELECT ... FROM audits WHERE site_id = id.
GaAudits(p) ==
    /\ w[p].pc = "ga_audits"
    /\ Set(p, [w[p] EXCEPT !.pc = "done", !.ret = "200",
                  !.resp = {a \in DOMAIN audits : a.site_id = w[p].site_id}])
    /\ UNCHANGED <<now, tenants, usage_logs, billing_history, issued, sites, tasks, audits>>

get_site_audits(p) ==
    \/ \E id \in SiteIds : GaSelect(p, id)
    \/ GaAudits(p)

\* app.py trigger_audit (POST /sites/{site_id}/audit), lines 468-481: the
\* site of the tenant, 404 when there is none.
TaSelect(p, id) ==
    /\ w[p].pc = "done" /\ w[p].kind = "gate" /\ w[p].ret = "tenant"
    /\ IF OwnedSite(id, w[p].t) = {}
       THEN Set(p, [w[p] EXCEPT !.kind = "trigger_audit", !.site_id = id, !.ret = "404"])
       ELSE Set(p, [w[p] EXCEPT !.kind = "trigger_audit", !.site_id = id, !.pc = "ta_log",
                       !.url = (CHOOSE r \in OwnedSite(id, w[p].t) : TRUE).url])
    /\ UNCHANGED <<now, tenants, usage_logs, billing_history, issued, sites, tasks, audits>>

\* trigger_audit, line 483: log_usage(tenant, 'trigger_audit', site_id), its
\* INSERT.
TaLog(p) ==
    /\ w[p].pc = "ta_log"
    /\ usage_logs' = InsertRow(usage_logs,
          [tenant_id |-> w[p].t, action |-> "trigger_audit",
           timestamp |-> now, billing_cycle |-> CycleTag(now),
           within |-> WithinAllowance(w[p].t)])
    /\ Set(p, [w[p] EXCEPT !.pc = "ta_count"])
    /\ UNCHANGED <<now, tenants, billing_history, issued, sites, tasks, audits>>

\* trigger_audit, lines 483-486: the UPDATE of log_usage, then
\* add_task(run_audit, site_id, url, tenant) and the 200 response.
TaCount(p) ==
    /\ w[p].pc = "ta_count"
    /\ tenants' = BumpUsage(w[p].t)
    /\ tasks' = InsertRow(tasks, [site_id |-> w[p].site_id, url |-> w[p].url,
                                  tenant_id |-> w[p].t])
    /\ Set(p, [w[p] EXCEPT !.pc = "done", !.ret = "200"])
    /\ UNCHANGED <<now, usage_logs, billing_history, issued, sites, audits>>

trigger_audit(p) ==
    \/ \E id \in SiteIds : TaSelect(p, id)
    \/ TaLog(p) \/ TaCount(p)

\* ---------------------------------------------------------------- analysis

\* A page as the analyzers see it: the lengths of its title and of its meta
\* description (0: absent or empty) and its word count.  The values lie on
\* both sides of every threshold of the rules.
PageData == [title : {0, 29, 30}, meta_description : {0, 69, 70}, word_count : {120, 299, 300}]

Penalty(hit, n) == IF hit THEN n ELSE 0

Issue(hit, type) == IF hit THEN <<type>> ELSE <<>>

\* The deductions added to 100 where they should be taken from it.
AddedPenalties(data) ==
    [seo_score |-> 100 + Penalty(data.title = 0, 20) + Penalty(data.title < 30, 10)
                       + Penalty(data.meta_description = 0, 20),
     issues |-> <<>>]

\* src/analyzer.py analyze_seo, lines 1-27.
analyze_seo(data) ==
    LET no_title == data.title = 0
        short_title == data.title < 30
        no_meta == data.meta_description = 0
        short_meta == data.meta_description # 0 /\ data.meta_description < 70
        score == 100 - Penalty(no_title, 20) - Penalty(short_title, 10)
                     - Penalty(no_meta, 20) - Penalty(short_meta, 10)
    IN  [seo_score |-> Max(score, 0),
         issues |-> Issue(no_title, "Missing title") \o Issue(short_title, "Title too short")
                    \o Issue(no_meta, "Missing meta description")
                    \o Issue(short_meta, "Meta description too short")]

\* src/autoseo-service/analyzer.py analyze_seo, lines 1-16.
service_analyze_seo(data) ==
    LET no_title == data.title = 0
        no_meta == data.meta_description = 0
    IN  [seo_score |-> 100 - Penalty(no_title, 20) - Penalty(no_meta, 20),
         issues |-> Issue(no_title, "Missing title") \o Issue(no_meta, "Missing meta description")]

\* src/ai/auto_seo_engine/issue_detector.py IssueDetector.detect, lines 3-43:
\* the issues only, each with its penalty; no score is computed.
detect(data) ==
    [issues |-> Issue(data.title = 0, "missing_title") \o Issue(data.title < 30, "short_title")
                \o Issue(data.meta_description = 0, "missing_meta")
                \o Issue(data.word_count < 300, "thin_content"),
     penalty |-> Penalty(data.title = 0, 20) + Penalty(data.title < 30, 10)
                 + Penalty(data.meta_description = 0, 20) + Penalty(data.word_count < 300, 15)]

\* The issues of one page under the five rules of the analyzer.
PageIssues(page) ==
    Issue(page.title = 0, "missing_title") \o Issue(page.title < 30, "short_title")
    \o Issue(page.meta_description = 0, "missing_meta")
    \o Issue(page.meta_description # 0 /\ page.meta_description < 70, "short_meta")
    \o Issue(page.word_count < 300, "thin_content")

\* The score of one page: 100 less the penalties of the rules it triggers,
\* clamped to [0, 100].
PageScore(page) ==
    Min(100, Max(0, 100 - Penalty(page.title = 0, 20) - Penalty(page.title < 30, 10)
                        - Penalty(page.meta_description = 0, 20)
                        - Penalty(page.meta_description # 0 /\ page.meta_description < 70, 10)
                        - Penalty(page.word_count < 300, 15)))

RECURSIVE SumScores(_)
SumScores(pages) ==
    IF pages = <<>> THEN 0 ELSE PageScore(Head(pages)) + SumScores(Tail(pages))

RECURSIVE AllIssues(_)
AllIssues(pages) ==
    IF pages = <<>> THEN <<>> ELSE PageIssues(Head(pages)) \o AllIssues(Tail(pages))

\* SEOAnalyzer().analyze(pages), called at app.py:361-362.  The class is not
\* in the available analyzer modules; it is taken to do what the analyzer of
\* the design does: the mean of the page scores (100, no deduction, for no
\* page) as the fraction num/den, and the issues of all pages.
analyze(pages) ==
    [score |-> IF pages = <<>>
               THEN [num |-> 100, den |-> 1]
               ELSE [num |-> SumScores(pages), den |-> Len(pages)],
     issues |-> AllIssues(pages)]

\* POST /analyze of src/api/app.py (lines 12-22, with a payload) and of
\* src/autoseo-service/api/app.py (lines 13-15), and IssueDetector.detect on
\* the same data: the result is the response.
post_analyze(p, payload) ==
    /\ w[p].pc = "idle"
    /\ \E kind \in {"analyze_seo", "service_analyze_seo", "detect"} :
          Set(p, [IdleW EXCEPT !.pc = "done", !.kind = kind, !.pages = <<payload>>, !.ret = "200",
                     !.resp = CASE kind = "analyze_seo" -> {analyze_seo(payload)}
                                [] kind = "service_analyze_seo" -> {service_analyze_seo(payload)}
                                [] OTHER -> {detect(payload)}])
    /\ UNCHANGED <<now, tenants, usage_logs, billing_history, issued, sites, tasks, audits>>

\* ------------------------------------------------------------------- audits

\* PLAN_LIMITS[plan]['max_pages_per_audit'], unknown plans resolving to 'free'.
PlanMaxPages(plan) ==
    CASE plan = "pro" -> FreePages + 1
      [] plan = "enterprise" -> FreePages + 2
      [] OTHER -> FreePages

\* app.py:358: crawler.crawl(url, max_pages=50), the literal 50.
AuditMaxPages == FreePages

\* The pages a crawl may come upon: the page of scenario S4 (no title, an
\* adequate meta description, 120 words) and a page no rule objects to.
CrawlPages ==
    {[title |-> 0, meta_description |-> 70, word_count |-> 120],
     [title |-> 30, meta_description |-> 70, word_count |-> 300]}

\* The lists of at most max_pages pages of the site web.
PageLists(web, max_pages) == UNION {[1..n -> web] : n \in 0..max_pages}

\* SELECT ... FROM sites WHERE id = id
SiteRows(id) == {r \in DOMAIN sites : r.id = id}

\* UPDATE sites SET status = status WHERE id = id
SetSiteStatus(id, status) ==
    IF SiteRows(id) = {}
    THEN sites
    ELSE LET r == CHOOSE x \in SiteRows(id) : TRUE
         IN  InsertRow(DeleteRows(sites, {r}), [r EXCEPT !.status = status])

\* app.py run_audit, lines 336-341, as the background pool starts a queued
\* task: check_rate_limit reads the tenant row (models.py:318-326).  (was
\* records the site and the tables at that point, for the statements about
\* what the run changed.)
BeginAudit(p) ==
    /\ w[p].pc = "idle"
    /\ \E k \in DOMAIN tasks :
          /\ tasks' = tasks (-) SetToBag({k})
          /\ Set(p, [IdleW EXCEPT !.pc = "ra_read", !.kind = "audit", !.t = k.tenant_id,
                        !.site_id = k.site_id, !.url = k.url,
                        !.was = [audit_count |-> IF SiteRows(k.site_id) = {} THEN Null
                                                 ELSE (CHOOSE x \in SiteRows(k.site_id) : TRUE).audit_count,
                                 audits |-> BagCardinality(audits),
                                 events |-> CountRows(usage_logs,
                                               {r \in DOMAIN usage_logs : r.action = "audit_completed"}),
                                 usage |-> BagCardinality(usage_logs)]])
    /\ UNCHANGED <<now, tenants, usage_logs, billing_history, issued, sites, audits>>

\* check_rate_limit, lines 318-326, in run_audit: the tenant row and the
\* subscription test.
RaRead(p) ==
    /\ w[p].pc = "ra_read"
    /\ LET t == w[p].t IN
       IF t \notin DOMAIN tenants
       THEN Set(p, [w[p] EXCEPT !.pc = "ra_deny", !.rl = <<FALSE, "tenant_not_found">>])
       ELSE IF tenants[t].subscription_status # "active"
       THEN Set(p, [w[p] EXCEPT !.pc = "ra_deny", !.rl = <<FALSE, "subscription_inactive">>])
       ELSE Set(p, [w[p] EXCEPT !.pc = "ra_count",
                       !.snap = [NoSnap EXCEPT !.rate_limit = tenants[t].rate_limit,
                                               !.billing_end = tenants[t].billing_end]])
    /\ UNCHANGED <<now, tenants, usage_logs, billing_history, issued, sites, tasks, audits>>

\* check_rate_limit, lines 328-351, and run_audit, lines 341-343:
\* get_cycle_usage, fromisoformat(billing_end), which raises on a NULL date,
\* and the verdict, which run_audit unpacks.
RaCount(p) ==
    /\ w[p].pc = "ra_count"
    /\ LET cycle_usage == get_cycle_usage(w[p].t, CycleTag(now))
           rl == check_rate_limit(cycle_usage, w[p].snap.rate_limit)
       IN  IF w[p].snap.billing_end = Null
           THEN Set(p, [w[p] EXCEPT !.pc = "ra_except", !.raised = "ra_count"])
           ELSE Set(p, [w[p] EXCEPT !.pc = IF rl[1] THEN "ra_running" ELSE "ra_deny",
                           !.rl = rl, !.usage = cycle_usage, !.snap = NoSnap])
    /\ UNCHANGED <<now, tenants, usage_logs, billing_history, issued, sites, tasks, audits>>

\* A denied run that marks the site failed and goes on all the same.
RaDenyAndGoOn(p) ==
    /\ w[p].pc = "ra_deny"
    /\ sites' = SetSiteStatus(w[p].site_id, "failed")
    /\ Set(p, [w[p] EXCEPT !.pc = "ra_running"])
    /\ UNCHANGED <<now, tenants, usage_logs, billing_history, issued, tasks, audits>>

\* run_audit, lines 343-348: denied, the site is marked failed and the run
\* returns.
RaDeny(p) ==
    /\ w[p].pc = "ra_deny"
    /\ sites' = SetSiteStatus(w[p].site_id, "failed")
    /\ Set(p, [w[p] EXCEPT !.pc = "done", !.ret = "denied"])
    /\ UNCHANGED <<now, tenants, usage_logs, billing_history, issued, tasks, audits>>

\* run_audit, lines 350-354.
RaRunning(p) ==
    /\ w[p].pc = "ra_running"
    /\ sites' = SetSiteStatus(w[p].site_id, "running")
    /\ Set(p, [w[p] EXCEPT !.pc = "ra_crawl"])
    /\ UNCHANGED <<now, tenants, usage_logs, billing_history, issued, tasks, audits>>

\* src/crawler.py Crawler.crawl(start_url, max_pages), lines 16-63: at most
\* max_pages pages.  A fetch that raises (a timeout) is caught inside the
\* loop (lines 59-61) and the URL is skipped: when the fetch of the start URL
\* times out the result is the empty list.  (web is what the site serves.)
crawl(web, fetch, max_pages) ==
    IF fetch = "timeout" THEN {<<>>} ELSE PageLists(web, max_pages)

\* run_audit, lines 356-358.
RaCrawl(p, web) ==
    /\ w[p].pc = "ra_crawl"
    /\ \E fetch \in {"ok", "timeout"} : \E pages \in crawl(web, fetch, AuditMaxPages) :
          Set(p, [w[p] EXCEPT !.pc = "ra_analyze", !.max_pages = AuditMaxPages,
                     !.fetch = fetch, !.pages = pages])
    /\ UNCHANGED <<now, tenants, usage_logs, billing_history, issued, sites, tasks, audits>>

\* run_audit, lines 360-362.
RaAnalyze(p) ==
    /\ w[p].pc = "ra_analyze"
    /\ Set(p, [w[p] EXCEPT !.pc = "ra_insert", !.analysis = analyze(w[p].pages)])
    /\ UNCHANGED <<now, tenants, usage_logs, billing_history, issued, sites, tasks, audits>>

\* run_audit, lines 364-374: INSERT the audit row under a fresh uuid, tagged
\* with the calendar month of the clock.
RaInsert(p) ==
    /\ w[p].pc = "ra_insert"
    /\ audits' = InsertRow(audits,
          [id |-> BagCardinality(audits) + 1, site_id |-> w[p].site_id, tenant_id |-> w[p].t,
           score |-> w[p].analysis.score, issues |-> w[p].analysis.issues,
           pages_analyzed |-> Len(w[p].pages), billing_cycle |-> CycleTag(now)])
    /\ Set(p, [w[p] EXCEPT !.pc = "ra_update", !.audit_id = BagCardinality(audits) + 1])
    /\ UNCHANGED <<now, tenants, usage_logs, billing_history, issued, sites, tasks>>

\* The site update without its audit_count term.
RaUpdateNoCount(p) ==
    /\ w[p].pc = "ra_update"
    /\ sites' = IF SiteRows(w[p].site_id) = {}
                THEN sites
                ELSE LET r == CHOOSE x \in SiteRows(w[p].site_id) : TRUE
                     IN  InsertRow(DeleteRows(sites, {r}),
                            [r EXCEPT !.status = "completed", !.last_audit = w[p].audit_id,
                                      !.last_score = w[p].analysis.score])
    /\ Set(p, [w[p] EXCEPT !.pc = "ra_log"])
    /\ UNCHANGED <<now, tenants, usage_logs, billing_history, issued, tasks, audits>>

\* run_audit, lines 376-383.
RaUpdate(p) ==
    /\ w[p].pc = "ra_update"
    /\ sites' = IF SiteRows(w[p].site_id) = {}
                THEN sites
                ELSE LET r == CHOOSE x \in SiteRows(w[p].site_id) : TRUE
                     IN  InsertRow(DeleteRows(sites, {r}),
                            [r EXCEPT !.status = "completed", !.last_audit = w[p].audit_id,
                                      !.last_score = w[p].analysis.score,
                                      !.audit_count = @ + 1])
    /\ Set(p, [w[p] EXCEPT !.pc = "ra_log"])
    /\ UNCHANGED <<now, tenants, usage_logs, billing_history, issued, tasks, audits>>

\* run_audit, line 386: log_usage(tenant_id, 'audit_completed', audit_id), its
\* INSERT.
RaLog(p) ==
    /\ w[p].pc = "ra_log"
    /\ usage_logs' = InsertRow(usage_logs,
          [tenant_id |-> w[p].t, action |-> "audit_completed",
           timestamp |-> now, billing_cycle |-> CycleTag(now),
           within |-> WithinAllowance(w[p].t)])
    /\ Set(p, [w[p] EXCEPT !.pc = "ra_bump"])
    /\ UNCHANGED <<now, tenants, billing_history, issued, sites, tasks, audits>>

\* log_usage, lines 270-273, and the end of run_audit.
RaBump(p) ==
    /\ w[p].pc = "ra_bump"
    /\ tenants' = BumpUsage(w[p].t)
    /\ Set(p, [w[p] EXCEPT !.pc = "done", !.ret = "completed"])
    /\ UNCHANGED <<now, usage_logs, billing_history, issued, sites, tasks, audits>>

\* The statements of the try block of run_audit, lines 338-386.
RaTry == {"ra_read", "ra_count", "ra_deny", "ra_running", "ra_crawl", "ra_analyze",
          "ra_insert", "ra_update", "ra_log", "ra_bump"}

\* The next statement of the try block raises: a persistence call fails (and
\* execute_query rolls that one statement back), or the crawler or the
\* analyzer raises.  Control passes to the except clause at line 388.
RaRaise(p) ==
    /\ w[p].pc \in RaTry
    /\ Set(p, [w[p] EXCEPT !.pc = "ra_except", !.raised = w[p].pc])
    /\ UNCHANGED <<now, tenants, usage_logs, billing_history, issued, sites, tasks, audits>>

\* run_audit, lines 388-393: the site is marked failed, the error is printed
\* and the task ends.
RaExcept(p) ==
    /\ w[p].pc = "ra_except"
    /\ sites' = SetSiteStatus(w[p].site_id, "failed")
    /\ Set(p, [w[p] EXCEPT !.pc = "done", !.ret = "failed"])
    /\ UNCHANGED <<now, tenants, usage_logs, billing_history, issued, tasks, audits>>

run_audit(p, web) ==
    \/ RaRead(p) \/ RaCount(p) \/ RaDeny(p) \/ RaRunning(p) \/ RaCrawl(p, web) \/ RaAnalyze(p)
    \/ RaInsert(p) \/ RaUpdate(p) \/ RaLog(p) \/ RaBump(p)

\* run_audit when a statement of its try block raises.
run_audit_except(p) == RaRaise(p) \/ RaExcept(p)

\* ------------------------------------------------------------- allowances

\* tenant.py update_tenant(tenant_id, {'plan_type': plan}), lines 204-231: the
\* first UPDATE, which writes plan_type.
UtPlan(p, t, plan) ==
    /\ w[p].pc = "idle"
    /\ t \in DOMAIN tenants
    /\ tenants' = [tenants EXCEPT ![t].plan_type = plan]
    /\ Set(p, [IdleW EXCEPT !.pc = "ut_limit", !.kind = "update_tenant", !.t = t, !.plan = plan])
    /\ UNCHANGED <<now, usage_logs, billing_history, issued, sites, tasks, audits>>

\* update_tenant, lines 233-241: the second UPDATE, which writes the
\* rate_limit of the plan named in the call, 'free' for an unknown plan.
UtLimit(p) ==
    /\ w[p].pc = "ut_limit"
    /\ tenants' = IF w[p].t \in DOMAIN tenants
                  THEN [tenants EXCEPT ![w[p].t].rate_limit = PlanRateLimit(w[p].plan)]
                  ELSE tenants
    /\ Set(p, [w[p] EXCEPT !.pc = "done", !.ret = "ok"])
    /\ UNCHANGED <<now, usage_logs, billing_history, issued, sites, tasks, audits>>

\* tenant.py apply_plan_updates_to_all, lines 985-987: SELECT id, plan_type
\* FROM tenants; the rows are held in memory from here on.
ApSelect(p) ==
    /\ w[p].pc = "idle"
    /\ Set(p, [IdleW EXCEPT !.pc = "ap_update", !.kind = "apply_plan_updates",
                  !.todo = {<<t, tenants[t].plan_type>> : t \in DOMAIN tenants}])
    /\ UNCHANGED <<now, tenants, usage_logs, billing_history, issued, sites, tasks, audits>>

\* apply_plan_updates_to_all, lines 989-998: for the next row read, UPDATE
\* rate_limit to that of the plan the row named; the count when all are done.
ApUpdate(p) ==
    /\ w[p].pc = "ap_update"
    /\ IF w[p].todo = {}
       THEN /\ Set(p, [w[p] EXCEPT !.pc = "done", !.ret = "ok"])
            /\ UNCHANGED tenants
       ELSE \E row \in w[p].todo :
               /\ tenants' = IF row[1] \in DOMAIN tenants
                             THEN [tenants EXCEPT ![row[1]].rate_limit = PlanRateLimit(row[2])]
                             ELSE tenants
               /\ Set(p, [w[p] EXCEPT !.todo = @ \ {row}])
    /\ UNCHANGED <<now, usage_logs, billing_history, issued, sites, tasks, audits>>

\* ----------------------------------------------------------- delete_tenant

\* tenant.py delete_tenant, lines 250-263: the tables in the order of its
\* DELETE statements.
DELETE_ORDER == <<"audits", "usage_logs", "billing_history", "sites", "tenants">>

\* The rows of a table that belong to tenant t.
RowsOf(table, t) == {r \in DOMAIN table : r.tenant_id = t}

\* delete_tenant, lines 244-247: a connection of its own and a cursor.
BeginDelete(p, t) ==
    /\ w[p].pc = "idle"
    /\ Set(p, [IdleW EXCEPT !.pc = "dt_delete", !.kind = "delete_tenant", !.t = t])
    /\ UNCHANGED <<now, tenants, usage_logs, billing_history, issued, sites, tasks, audits>>

\* delete_tenant, lines 250-263: the next DELETE, inside the transaction the
\* first one opened: nothing is committed, the tables other connections read
\* are as they were.  (deleted lists the tables done so far.)
DtDelete(p) ==
    /\ w[p].pc = "dt_delete"
    /\ LET n == Len(w[p].deleted) + 1
       IN  Set(p, [w[p] EXCEPT !.deleted = Append(@, DELETE_ORDER[n]),
                               !.pc = IF n = Len(DELETE_ORDER) THEN "dt_commit" ELSE "dt_delete"])
    /\ UNCHANGED <<now, tenants, usage_logs, billing_history, issued, sites, tasks, audits>>

\* delete_tenant, lines 265-266: conn.commit() makes the five DELETEs take
\* effect at once.
DtCommit(p) ==
    /\ w[p].pc = "dt_commit"
    /\ LET t == w[p].t IN
       /\ audits' = DeleteRows(audits, RowsOf(audits, t))
       /\ usage_logs' = DeleteRows(usage_logs, RowsOf(usage_logs, t))
       /\ billing_history' = DeleteRows(billing_history, RowsOf(billing_history, t))
       /\ sites' = DeleteRows(sites, RowsOf(sites, t))
       /\ tenants' = [u \in DOMAIN tenants \ {t} |-> tenants[u]]
    /\ Set(p, [w[p] EXCEPT !.pc = "done", !.ret = "ok"])
    /\ UNCHANGED <<now, issued, tasks>>

\* delete_tenant, lines 268-272: a statement or the commit raises;
\* conn.rollback() undoes the DELETEs done so far and the exception is raised
\* again.
DtRaise(p) ==
    /\ w[p].pc \in {"dt_delete", "dt_commit"}
    /\ Set(p, [w[p] EXCEPT !.pc = "done", !.ret = "error"])
    /\ UNCHANGED <<now, tenants, usage_logs, billing_history, issued, sites, tasks, audits>>

delete_tenant(p) == DtDelete(p) \/ DtCommit(p) \/ DtRaise(p)

\* ------------------------------------------------------------------ crawler

\* The largest page cap a crawl is called with.
MaxCap == 3

\* A URL: host (netloc), path and fragment; "" for a part that is absent.
Url(host, path, frag) == [host |-> host, path |-> path, frag |-> frag]

\* The start URL of the crawls: the home page of host h.
StartUrl == Url("h", "a", "")

\* The href attributes a page may carry, as the prefix startswith looks at
\* and the rest: paths on the page's own host, an absolute URL on another
\* host, a fragment, a script and a mail address.
Hrefs ==
    {[prefix |-> "/", rest |-> "a"], [prefix |-> "/", rest |-> "b"], [prefix |-> "/", rest |-> "c"],
     [prefix |-> "http://x/", rest |-> "a"],
     [prefix |-> "#", rest |-> "top"],
     [prefix |-> "javascript:", rest |-> "void(0)"],
     [prefix |-> "mailto:", rest |-> "a@x"]}

Href(prefix, rest) == [prefix |-> prefix, rest |-> rest]

\* The sets of hrefs a page of the sites below may carry.
LinkSets ==
    {{}, {Href("/", "b")}, {Href("/", "c")}, {Href("/", "b"), Href("/", "c")},
     {Href("/", "a"), Href("/", "b")}, {Href("http://x/", "a"), Href("/", "c")},
     {Href("#", "top"), Href("javascript:", "void(0)"), Href("mailto:", "a@x")},
     {Href("#", "top"), Href("mailto:", "a@x"), Href("/", "b")}}

\* What a GET of a path of host h does: a 200 page with its hrefs, another
\* status code, or an exception (a timeout, a refused connection).
Resources ==
    [status : {"200"}, links : LinkSets] \cup [status : {"404", "timeout"}, links : {{}}]

\* The sites: every assignment of a resource to the three paths of host h.
Sites == [{"a", "b", "c"} -> Resources]

\* urllib.parse.urljoin(base_url, href) for the hrefs above.
urljoin(base_url, href) ==
    CASE href.prefix = "/" -> Url(base_url.host, href.rest, "")
      [] href.prefix = "http://x/" -> Url("x", href.rest, "")
      [] href.prefix = "#" -> Url(base_url.host, base_url.path, href.rest)
      [] OTHER -> Url("", href.prefix \o href.rest, "")

\* urlparse(url).netloc
netloc(url) == url.host

\* Every href is taken for a link, none is left out.
AllLinks(links, base_url, domain) ==
    {[url |-> urljoin(base_url, href), internal |-> netloc(urljoin(base_url, href)) = domain] :
        href \in links}

\* src/crawler.py Crawler._get_links, lines 88-99: the hrefs that do not
\* start with '#', 'javascript:' or 'mailto:', joined to the page's URL and
\* marked internal when their netloc is the start URL's.
_get_links(links, base_url, domain) ==
    {[url |-> urljoin(base_url, href), internal |-> netloc(urljoin(base_url, href)) = domain] :
        href \in {h \in links : h.prefix \notin {"#", "javascript:", "mailto:"}}}

\* session.get(url): the resource the site serves there (the fragment is
\* not sent).
Get(site, url) ==
    IF url.host = "h" /\ url.path \in DOMAIN site
    THEN site[url.path]
    ELSE [status |-> "timeout", links |-> {}]

\* Crawler.crawl, lines 16-22: visited and results are cleared, to_visit is
\* {start_url} and domain its netloc.
CrawlBegin(p, site, max_pages) ==
    /\ w[p].pc = "idle"
    /\ Set(p, [IdleW EXCEPT !.pc = "crawl", !.kind = "crawl", !.max_pages = max_pages,
                  !.crawl = [NoCrawl EXCEPT !.site = site, !.start = StartUrl,
                                            !.domain = netloc(StartUrl),
                                            !.to_visit = {StartUrl}]])
    /\ UNCHANGED <<now, tenants, usage_logs, billing_history, issued, sites, tasks, audits>>

\* One iteration in which a fetch that fails ends the crawl.
CrawlStepFatal(p) ==
    /\ w[p].pc = "crawl"
    /\ w[p].crawl.to_visit # {} /\ Len(w[p].crawl.results) < w[p].max_pages
    /\ \E url \in w[p].crawl.to_visit :
          LET c == w[p].crawl
              response == Get(c.site, url)
              links == _get_links(response.links, url, c.domain)
          IN  IF response.status # "200"
              THEN Set(p, [w[p] EXCEPT !.crawl.to_visit = {}, !.crawl.visited = @ \cup {url},
                                       !.crawl.fetched = Append(@, url)])
              ELSE Set(p, [w[p] EXCEPT
                      !.crawl.to_visit = (@ \ {url}) \cup
                           {l.url : l \in {x \in links : x.internal /\ x.url \notin c.visited \cup {url}}},
                      !.crawl.visited = @ \cup {url},
                      !.crawl.fetched = Append(@, url),
                      !.crawl.results = Append(@, [url |-> url, links |-> links, status_code |-> "200"])])
    /\ UNCHANGED <<now, tenants, usage_logs, billing_history, issued, sites, tasks, audits>>

\* Crawler.crawl, lines 24-61, one iteration of the loop: pop any URL of
\* to_visit; skip it when visited; else mark it visited and fetch it.  An
\* exception (lines 59-61) or a status other than 200 (lines 33-34) goes on
\* to the next iteration; a 200 page is appended to results and its internal
\* links not yet visited join to_visit.  (fetched is the history of the GETs.)
CrawlStep(p) ==
    /\ w[p].pc = "crawl"
    /\ w[p].crawl.to_visit # {} /\ Len(w[p].crawl.results) < w[p].max_pages
    /\ \E url \in w[p].crawl.to_visit :
          LET c == w[p].crawl
              response == Get(c.site, url)
              links == _get_links(response.links, url, c.domain)
          IN  IF url \in c.visited
              THEN Set(p, [w[p] EXCEPT !.crawl.to_visit = @ \ {url}])
              ELSE IF response.status # "200"
              THEN Set(p, [w[p] EXCEPT !.crawl.to_visit = @ \ {url}, !.crawl.visited = @ \cup {url},
                                       !.crawl.fetched = Append(@, url)])
              ELSE Set(p, [w[p] EXCEPT
                      !.crawl.to_visit = (@ \ {url}) \cup
                           {l.url : l \in {x \in links : x.internal /\ x.url \notin c.visited \cup {url}}},
                      !.crawl.visited = @ \cup {url},
                      !.crawl.fetched = Append(@, url),
                      !.crawl.results = Append(@, [url |-> url, links |-> links, status_code |-> "200"])])
    /\ UNCHANGED <<now, tenants, usage_logs, billing_history, issued, sites, tasks, audits>>

\* Crawler.crawl, lines 24 and 63: the loop ends when to_visit is empty or
\* results holds max_pages pages, and results is returned.
CrawlReturn(p) ==
    /\ w[p].pc = "crawl"
    /\ ~(w[p].crawl.to_visit # {} /\ Len(w[p].crawl.results) < w[p].max_pages)
    /\ Set(p, [w[p] EXCEPT !.pc = "done", !.ret = "results"])
    /\ UNCHANGED <<now, tenants, usage_logs, billing_history, issued, sites, tasks, audits>>

GateStep(p) ==
    \/ Lookup(p) \/ CrRead(p) \/ CrCount(p) \/ CrInsert(p) \/ CrUpdate(p) \/ CrPrune(p)
    \/ GGet(p) \/ RlRead(p) \/ RlCount(p) \/ LogInsert(p) \/ LogUpdate(p) \/ Incr(p)
    \/ Return(p)

\* One tenant, one request at a time: a handler runs to completion before the
\* next request, the clock or an administrator acts.
Next ==
    \/ Quiet /\ Tick(Days)
    \/ Quiet /\ \E plan \in RegPlans, c \in BILLING_CYCLES : create_tenant("t1", plan, c)
    \/ Quiet /\ \E s \in SUBSCRIPTION_STATUS : update_tenant("t1", s)
    \/ Quiet /\ \E key \in Credentials : BeginGate("w1", key)
    \/ GateStep("w1")

Spec == Init /\ [][Next]_vars

\* Two tenants, one request at a time, with the admin sweep; tenant t1 is the
\* one that calls the API.
NextSweep ==
    \/ Quiet /\ Tick(Days)
    \/ Quiet /\ \E t \in TenantIds, plan \in RegPlans, c \in BILLING_CYCLES : create_tenant(t, plan, c)
    \/ Quiet /\ BeginGate("w1", generate_api_key("t1"))
    \/ Quiet /\ BeginReset("w1")
    \/ GateStep("w1")
    \/ SweepNext("w1")

SpecSweep == Init /\ [][NextSweep]_vars

\* Requests served concurrently: the steps of the workers interleave with
\* each other and with the clock, and a request may die at any step.
NextConc ==
    \/ Tick(ConcDays)
    \/ create_tenant("t1", "free", "monthly")
    \/ \E p \in Workers : BeginGate(p, generate_api_key("t1"))
    \/ \E p \in Workers : GateStep(p)
    \/ \E p \in Workers : Abort(p)

SpecConc == Init /\ [][NextConc]_vars

\* One tenant on the pro plan, one request at a time, with plan changes
\* through tenant.py change_tenant_plan.
NextPlan ==
    \/ Quiet /\ Tick(PlanDays)
    \/ Quiet /\ \E c \in BILLING_CYCLES : create_tenant("t1", "pro", c)
    \/ Quiet /\ \E plan \in PlanRequests, c \in CycleRequests : change_tenant_plan("t1", plan, c)
    \/ Quiet /\ BeginGate("w1", generate_api_key("t1"))
    \/ GateStep("w1")

SpecPlan == Init /\ [][NextPlan]_vars

\* The same with the admin endpoint POST /tenants/{id}/plan as a second way
\* to change the plan.
NextAdmin ==
    \/ NextPlan
    \/ Quiet /\ \E plan \in PlanRequests, c \in CycleRequests : update_plan("t1", plan, c)

SpecAdmin == Init /\ [][NextAdmin]_vars

\* Two tenants registered through either entry point, credentials rotated
\* through either function, and gate calls with any credential, one request
\* at a time.
NextKeys ==
    \/ Quiet /\ \E t \in TenantIds : create_tenant(t, "free", "monthly")
    \/ Quiet /\ \E t \in TenantIds : post_tenants("w1", t, Email(t), "free", "monthly")
    \/ Quiet /\ \E t \in DOMAIN tenants, k \in RotatedKeys : regenerate_api_key(t, k)
    \/ Quiet /\ \E t \in DOMAIN tenants, k \in RotatedKeys : create_api_key_for_tenant(t, k)
    \/ Quiet /\ \E key \in AllCredentials : BeginGate("w1", key)
    \/ GateStep("w1")
    \/ Quiet /\ Tick(ConcDays)

SpecKeys == Init /\ [][NextKeys]_vars

\* A tenant of any plan whose first monthly cycle, opened on 2023-02-20, has
\* long ended with a usage around or above the allowance (usage_count stands
\* at two per call, as the gate leaves it); nothing has rolled it over yet.
InitCharge ==
    /\ now = At(2024, 1, 10)
    /\ \E plan_type \in DOMAIN PLAN_LIMITS, over \in -1..MaxOverage :
          LET rate_limit == PLAN_LIMITS[plan_type].rate_limit
              usage == rate_limit + over
              start == At(2023, 2, 20)
              row(within) == [tenant_id |-> "t1", action |-> "api_call", timestamp |-> start,
                              billing_cycle |-> CycleTag(start), within |-> within]
          IN  /\ tenants = [t \in {"t1"} |->
                     [plan_type |-> plan_type, billing_cycle |-> "monthly",
                      usage_count |-> 2 * usage, rate_limit |-> rate_limit,
                      billing_start |-> start,
                      billing_end |-> get_next_billing_date(start, "monthly"),
                      last_reset |-> start, subscription_status |-> "active",
                      email |-> Email(t),
                      api_key |-> hash_api_key(generate_api_key(t))]]
              /\ usage_logs = [r \in {row(TRUE)} \cup {row(FALSE) : x \in 1..over} |->
                                 IF r.within THEN Min(usage, rate_limit) ELSE over]
    /\ billing_history = EmptyBag
    /\ w = [p \in Workers |-> IdleW]
    /\ issued = [t \in {"t1"} |-> <<generate_api_key(t)>>]
    /\ sites = EmptyBag
    /\ tasks = EmptyBag
    /\ audits = EmptyBag

\* The admin sweep closes the cycle, the tenant reads its billing history
\* through the gate, and the charge of a cycle is computed from its usage rows.
NextCharge ==
    \/ Quiet /\ BeginReset("w1")
    \/ SweepNext("w1")
    \/ Quiet /\ BeginGate("w1", generate_api_key("t1"))
    \/ GateStep("w1")
    \/ get_billing_history("w1")
    \/ Quiet /\ \E cycle \in {CycleTag(now), CycleTag(At(2023, 2, 20))} :
                   calculate_overage_charges("w1", "t1", cycle)

SpecCharge == InitCharge /\ [][NextCharge]_vars

\* POST /sites served concurrently for one tenant: the steps of the workers
\* interleave with each other; the clock moves on between requests.
NextSites ==
    \/ Quiet /\ Tick(ConcDays)
    \/ create_tenant("t1", "free", "monthly")
    \/ \E p \in Workers : BeginGate(p, generate_api_key("t1"))
    \/ \E p \in Workers : GateStep(p)
    \/ \E p \in Workers : add_site(p)

SpecSites == Init /\ [][NextSites]_vars

\* POST /sites one request at a time, for two tenants.
NextSitesSeq ==
    \/ Quiet /\ Tick(ConcDays)
    \/ Quiet /\ \E t \in TenantIds : create_tenant(t, "free", "monthly")
    \/ Quiet /\ \E t \in TenantIds : BeginGate("w1", generate_api_key(t))
    \/ GateStep("w1")
    \/ add_site("w1")

SpecSitesSeq == Init /\ [][NextSitesSeq]_vars

\* Registrations through POST /tenants, one request at a time, with either
\* address and either cycle kind.
NextReg ==
    \/ Quiet /\ Tick(Days)
    \/ \E t \in TenantIds, email \in Emails, c \in BILLING_CYCLES :
          post_tenants("w1", t, email, "free", c)
    \/ Return("w1")

SpecReg == Init /\ [][NextReg]_vars

\* The analysis requests, which need no tenant, and then one tenant on the pro
\* plan that registers one site, which is audited once; the site serves
\* pages of every combination of signals.
NextScore ==
    \/ DOMAIN tenants = {} /\ \E payload \in PageData : post_analyze("w1", payload)
    \/ Quiet /\ create_tenant("t1", "pro", "monthly")
    \/ Quiet /\ sites = EmptyBag /\ Tick(ConcDays)
    \/ Quiet /\ sites = EmptyBag /\ BeginGate("w1", generate_api_key("t1"))
    \/ GateStep("w1")
    \/ AsSelect("w1", "u1") \/ AsInsert("w1") \/ AsLog("w1") \/ AsCount("w1")
    \/ Quiet /\ BeginAudit("w1")
    \/ run_audit("w1", PageData)

SpecScore == Init /\ [][NextScore]_vars

\* One tenant on the pro plan, one request or background task at a time: a
\* site is registered, audits are triggered and run, the subscription changes
\* and the clock moves on.  No statement of a run raises.
NextAudit ==
    \/ Quiet /\ Tick(ConcDays)
    \/ Quiet /\ create_tenant("t1", "pro", "monthly")
    \/ Quiet /\ \E status \in {"active", "canceled"} : update_tenant("t1", status)
    \/ Quiet /\ BeginGate("w1", generate_api_key("t1"))
    \/ GateStep("w1")
    \/ AsSelect("w1", "u1") \/ AsInsert("w1") \/ AsLog("w1") \/ AsCount("w1")
    \/ trigger_audit("w1")
    \/ Quiet /\ BeginAudit("w1")
    \/ run_audit("w1", CrawlPages)

SpecAudit == Init /\ [][NextAudit]_vars

\* The same where any statement of a run may raise.
NextFail ==
    \/ NextAudit
    \/ run_audit_except("w1")

SpecFail == Init /\ [][NextFail]_vars

\* Two tenants on the pro plan, one request or background task at a time:
\* each registers a site, the sites are audited, and each tenant asks for
\* sites and audits by any id.  The clock moves on before the first site;
\* the sites serve no page the crawler keeps.
NextIso ==
    \/ Quiet /\ sites = EmptyBag /\ Tick(ConcDays)
    \/ Quiet /\ \E t \in TenantIds : create_tenant(t, "pro", "monthly")
    \/ Quiet /\ \E t \in TenantIds : BeginGate("w1", generate_api_key(t))
    \/ GateStep("w1")
    \/ AsSelect("w1", "u1") \/ AsInsert("w1") \/ AsLog("w1") \/ AsCount("w1")
    \/ list_sites("w1")
    \/ \E id \in SiteIds : get_site("w1", id)
    \/ get_site_audits("w1")
    \/ trigger_audit("w1")
    \/ Quiet /\ BeginAudit("w1")
    \/ run_audit("w1", {})

SpecIso == Init /\ [][NextIso]_vars

\* The process terminates and is started again.  The requests and the runs
\* in progress are gone, and so are the queued tasks, which BackgroundTasks
\* holds in memory.  Start-up runs init_db (app.py:29, models.py:17-145):
\* CREATE TABLE / INDEX IF NOT EXISTS, which changes no row.
init_db ==
    /\ w' = [p \in Workers |-> IdleW]
    /\ tasks' = EmptyBag
    /\ UNCHANGED <<now, tenants, usage_logs, billing_history, issued, sites, audits>>

\* One tenant on the pro plan registers a site, which is audited; a statement
\* of the run may raise and the process may be restarted at any point.  A
\* run that has started goes on as long as the process lives.
NextRecover ==
    \/ Quiet /\ sites = EmptyBag /\ Tick(ConcDays)
    \/ Quiet /\ create_tenant("t1", "pro", "monthly")
    \/ Quiet /\ BeginGate("w1", generate_api_key("t1"))
    \/ GateStep("w1")
    \/ AsSelect("w1", "u1") \/ AsInsert("w1") \/ AsLog("w1") \/ AsCount("w1")
    \/ trigger_audit("w1")
    \/ Quiet /\ BeginAudit("w1")
    \/ run_audit("w1", CrawlPages)
    \/ run_audit_except("w1")
    \/ init_db

SpecRecover ==
    /\ Init /\ [][NextRecover]_vars
    /\ WF_vars(run_audit("w1", CrawlPages) \/ run_audit_except("w1"))
    /\ WF_vars(Quiet /\ BeginAudit("w1"))

\* Crawls of every site with every page cap, one at a time; a crawl that has
\* started goes on.
NextCrawl ==
    \/ \E site \in Sites, max_pages \in 0..MaxCap : CrawlBegin("w1", site, max_pages)
    \/ CrawlStep("w1")
    \/ CrawlReturn("w1")
    \/ Return("w1")

SpecCrawl ==
    /\ Init /\ [][NextCrawl]_vars
    /\ WF_vars(CrawlStep("w1") \/ CrawlReturn("w1"))

\* Two tenants on the pro plan, one request or task at a time: each registers
\* a site, which is audited, cycles roll, and a tenant is deleted.  A tenant
\* id is a fresh uuid and is not used again.
NextDelete ==
    \/ Quiet /\ sites = EmptyBag /\ Tick(ConcDays)
    \/ Quiet /\ \E t \in TenantIds \ DOMAIN issued : create_tenant(t, "pro", "monthly")
    \/ Quiet /\ \E t \in TenantIds : BeginGate("w1", generate_api_key(t))
    \/ GateStep("w1")
    \/ AsSelect("w1", "u1") \/ AsInsert("w1") \/ AsLog("w1") \/ AsCount("w1")
    \/ Quiet /\ BeginAudit("w1")
    \/ run_audit("w1", {})
    \/ Quiet /\ \E t \in DOMAIN tenants : BeginDelete("w1", t)
    \/ delete_tenant("w1")

SpecDelete == Init /\ [][NextDelete]_vars

\* Tenants registered with any plan id through either entry point, plan
\* changes through update_tenant and the re-application of the catalog's
\* allowances, served by two workers whose statements interleave.
NextAllow ==
    \/ \E t \in TenantIds, plan \in PlanRequests : create_tenant(t, plan, "monthly")
    \/ \E p \in Workers, t \in TenantIds, plan \in PlanRequests :
          post_tenants(p, t, Email(t), plan, "monthly")
    \/ \E p \in Workers, t \in TenantIds, plan \in PlanRequests : UtPlan(p, t, plan)
    \/ \E p \in Workers : UtLimit(p)
    \/ \E p \in Workers : ApSelect(p)
    \/ \E p \in Workers : ApUpdate(p)
    \/ \E p \in Workers : Return(p)

SpecAllow == Init /\ [][NextAllow]_vars

\* One tenant on the pro plan registers a site and asks for another audit of
\* it; the background pool runs the two queued audits on two threads, whose
\* statements interleave.  The site serves no page the crawler keeps.
NextOverlap ==
    \/ Quiet /\ Tick(ConcDays)
    \/ Quiet /\ create_tenant("t1", "pro", "monthly")
    \/ Quiet /\ BeginGate("w1", generate_api_key("t1"))
    \/ GateStep("w1")
    \/ AsSelect("w1", "u1") \/ AsInsert("w1") \/ AsLog("w1") \/ AsCount("w1")
    \/ trigger_audit("w1")
    \/ \E p \in Workers : BeginAudit(p)
    \/ \E p \in Workers : run_audit(p, {})
    \/ \E p \in Workers : Return(p)

SpecOverlap == Init /\ [][NextOverlap]_vars

\* The days of the runs with cycles anchored on day 31: two registration
\* days, the cycle ends that follow them and days after those ends.
ClampDays == {DayOrd(2024, 1, 31), DayOrd(2024, 2, 29), DayOrd(2024, 3, 1),
              DayOrd(2024, 3, 31), DayOrd(2024, 4, 1), DayOrd(2024, 4, 30),
              DayOrd(2024, 5, 2)}

\* One monthly tenant registered on the 31st of a month, one request at a
\* time; its cycles roll over at the first request after their end.
NextClamp ==
    \/ Quiet /\ Tick(ClampDays)
    \/ Quiet /\ DateOfDay(DayOf(now)).d = 31 /\ create_tenant("t1", "free", "monthly")
    \/ Quiet /\ BeginGate("w1", generate_api_key("t1"))
    \/ GateStep("w1")

SpecClamp == Init /\ [][NextClamp]_vars

\* Registrations at every instant of the calendar range: the first and the
\* last instant of each day, either cycle kind.
InitCal ==
    /\ now \in {d * SubsPerDay + s : d \in 0..CalDays, s \in {0, SubsPerDay - 1}}
    /\ tenants = [t \in {} |-> 0]
    /\ usage_logs = EmptyBag
    /\ billing_history = EmptyBag
    /\ w = [p \in Workers |-> IdleW]
    /\ issued = [t \in {} |-> <<>>]
    /\ sites = EmptyBag
    /\ tasks = EmptyBag
    /\ audits = EmptyBag

NextCal == \E c \in BILLING_CYCLES : create_tenant("t1", "free", c)

SpecCal == InitCal /\ [][NextCal]_vars

\* ------------------------------------------------------------------ claims

\* Usage rows of tenant t stamped from lo to hi.
EventsBetween(t, lo, hi) ==
    CountRows(usage_logs, {r \in DOMAIN usage_logs : r.tenant_id = t /\ lo <= r.timestamp /\ r.timestamp <= hi})

\* Usage rows of tenant t stamped at or after instant lo.
EventsSince(t, lo) ==
    CountRows(usage_logs, {r \in DOMAIN usage_logs : r.tenant_id = t /\ lo <= r.timestamp})

\* Worker p has finished a gate call and the gate admitted it.
Admitted(p) == w[p].pc = "done" /\ w[p].kind = "gate" /\ w[p].ret = "tenant"

\* C1: for an active tenant the gate admits a call only while the usage of the
\* current cycle is below the allowance: counting the row of the admitted
\* call, the rows of the cycle never exceed the allowance (the call after the
\* allowance is used up is denied).
C1_AdmitsOnlyBelowAllowance ==
    \A p \in Workers :
       (Admitted(p) /\ tenants[w[p].t].subscription_status = "active")
          => EventsSince(w[p].t, tenants[w[p].t].billing_start) <= tenants[w[p].t].rate_limit

\* C2: a gate call with the valid credential of a tenant whose subscription is
\* not active is never admitted.
C2_InactiveNeverAdmitted ==
    \A p \in Workers :
       (w[p].pc = "done" /\ w[p].kind = "gate" /\ w[p].t \in DOMAIN tenants
          /\ tenants[w[p].t].subscription_status # "active")
          => w[p].ret # "tenant"

\* C3: under every interleaving of gate calls, the api_call rows of a tenant's
\* current cycle never exceed its allowance.
C3_AdmittedWithinAllowance ==
    \A t \in DOMAIN tenants :
       tenants[t].billing_start # Null =>
          CountRows(usage_logs, {r \in DOMAIN usage_logs : r.tenant_id = t /\ r.action = "api_call"
                                             /\ r.timestamp >= tenants[t].billing_start})
             <= tenants[t].rate_limit

\* C4: a tenant has at most one billing row per (cycle_start, cycle_end).
C4_OneRecordPerCycle ==
    \A r \in DOMAIN billing_history :
       CountRows(billing_history, {q \in DOMAIN billing_history : q.tenant_id = r.tenant_id
                                               /\ q.cycle_start = r.cycle_start
                                               /\ q.cycle_end = r.cycle_end}) = 1

\* The billing row a rollover of worker p must append: the bounds of the
\* tenant's closing cycle, the usage counted for it, the part of that usage
\* above the allowance, status pending.
C5_Record(p) ==
    LET row == tenants[w[p].t]
        usage == w[p].usage
    IN  [tenant_id |-> w[p].t,
         cycle_start |-> row.billing_start,
         cycle_end |-> row.billing_end,
         usage |-> usage,
         overage |-> IF usage > row.rate_limit THEN usage - row.rate_limit ELSE 0,
         status |-> "pending"]

\* Worker p takes the step that writes the billing row.
C5_Appends(p) == w[p].pc = "cr_insert" /\ w'[p].pc = "cr_update"

\* One step of a rollover check: it goes on to the rollover exactly when
\* now > cycle_end, the rollover appends exactly the row C5_Record, and no
\* other step touches billing_history.
C5_Step ==
    /\ \A p \in Workers :
          (w[p].pc = "cr_read" /\ w'[p] # w[p]) =>
             (w'[p].pc = "cr_count" <=>
                 /\ w[p].t \in DOMAIN tenants
                 /\ tenants[w[p].t].billing_end # Null
                 /\ now > tenants[w[p].t].billing_end)
    /\ \A p \in Workers :
          (w[p].pc = "cr_count" /\ w'[p] # w[p]) => w'[p].pc = "cr_insert"
    /\ \A p \in Workers :
          C5_Appends(p) => billing_history' = billing_history (+) SetToBag({C5_Record(p)})
    /\ (\A p \in Workers : ~C5_Appends(p)) => billing_history' = billing_history

\* Scenario S2 at the point where worker p has written the billing row: a
\* free-plan tenant whose cycle runs 2024-01-10 to 2024-02-10, the gate called
\* one more time than the allowance on 2024-01-10 (S1), and the gate called
\* again on 2024-02-11.
C5_S2(p) ==
    /\ w[p].pc = "cr_update" /\ w[p].kind = "gate"
    /\ w[p].t \in DOMAIN tenants
    /\ tenants[w[p].t].plan_type = "free"
    /\ tenants[w[p].t].billing_start = At(2024, 1, 10)
    /\ tenants[w[p].t].billing_end = At(2024, 2, 10)
    /\ DayOf(w[p].nowr) = DayOrd(2024, 2, 11)
    /\ EventsBetween(w[p].t, At(2024, 1, 10), At(2024, 1, 11) - 1) = FreeLimit + 1
    /\ EventCount(w[p].t) = FreeLimit + 1

\* The billing row of scenario S2: the tenant has one row for that cycle, with
\* usage allowance + 1 and overage 1.
C5_S2Record ==
    \A p \in Workers :
       C5_S2(p) =>
          /\ CountRows(billing_history,
                       {r \in DOMAIN billing_history :
                           r.tenant_id = w[p].t /\ r.cycle_start = At(2024, 1, 10)}) = 1
          /\ [tenant_id |-> w[p].t,
              cycle_start |-> At(2024, 1, 10),
              cycle_end |-> At(2024, 2, 10),
              usage |-> FreeLimit + 1,
              overage |-> 1,
              status |-> "pending"] \in DOMAIN billing_history

\* C5: a rollover check that finds now > cycle_end appends exactly one billing
\* row, with status pending, the bounds of the closing cycle and
\* overage = max(0, usage - allowance); in scenario S2 the row has usage
\* allowance + 1 and overage 1.
C5_RolloverAppendsRecord == []C5_S2Record /\ [][C5_Step]_vars

\* Scenario S2 has happened.
C5_Witness == \E p \in Workers : C5_S2(p)

\* C6: the usage written in a billing row is at most the number of the
\* tenant's stored usage rows stamped between the row's cycle_start and
\* cycle_end, and equals it once that cycle is no longer the tenant's current
\* one.
C6_RecordCountsCycleEvents ==
    \A r \in DOMAIN billing_history :
       LET n == EventsBetween(r.tenant_id, r.cycle_start, r.cycle_end)
       IN  /\ n >= r.usage
           /\ (r.tenant_id \in DOMAIN tenants
                 /\ tenants[r.tenant_id].billing_start # r.cycle_start) => n = r.usage

\* C7: after an admitted gate call that rolled the cycle over, the tenant has
\* cycle_start = now, cycle_end = next_boundary(now, cycle_kind),
\* last_reset = now and usage_count = 1.
C7_AdmittedRolloverState ==
    \A p \in Workers :
       (Admitted(p) /\ w[p].rolled) =>
          LET row == tenants[w[p].t]
          IN  /\ row.billing_start = now
              /\ row.billing_end = get_next_billing_date(now, row.billing_cycle)
              /\ row.last_reset = now
              /\ row.usage_count = 1

\* Billing rows of tenant t in table hist.
RecordsOf(hist, t) == CountRows(hist, {r \in DOMAIN hist : r.tenant_id = t})

\* C8: when the admin sweep has returned, every tenant whose cycle_end had
\* passed has exactly one more billing row and is no longer past its
\* cycle_end (so the sweep run again at once adds nothing), and every other
\* tenant has the rows and the tenant row it had.
C8_SweepOneRecordPerExpired ==
    \A p \in Workers :
       (w[p].pc = "done" /\ w[p].kind = "reset") =>
          \A t \in DOMAIN w[p].pre.rows :
             IF t \in w[p].pre.exp
             THEN /\ RecordsOf(billing_history, t) = RecordsOf(w[p].pre.hist, t) + 1
                  /\ ~(now > tenants[t].billing_end)
             ELSE /\ RecordsOf(billing_history, t) = RecordsOf(w[p].pre.hist, t)
                  /\ tenants[t] = w[p].pre.rows[t]

\* C9: while no request is in progress, usage_count of every tenant is the
\* number of its usage rows stamped since its cycle_start.
C9_CounterEqualsCycleEvents ==
    Quiet =>
       \A t \in DOMAIN tenants :
          tenants[t].billing_start # Null =>
             tenants[t].usage_count = EventsSince(t, tenants[t].billing_start)

\* C10: usage_count never exceeds the number of the tenant's usage rows
\* appended since its last reset.
C10_NoIncrementWithoutEvent ==
    \A t \in DOMAIN tenants :
       tenants[t].last_reset # Null =>
          tenants[t].usage_count <= EventsSince(t, tenants[t].last_reset)

\* One step as the denied calls allow it: a usage row is appended, and a
\* usage counter raised, only by a gate call whose check_rate_limit allowed it.
C11_Step ==
    /\ BagCardinality(usage_logs') > BagCardinality(usage_logs) =>
          \E p \in Workers : w[p].pc = "log_insert" /\ w[p].rl[1]
    /\ \A t \in DOMAIN tenants \cap DOMAIN tenants' :
          tenants'[t].usage_count > tenants[t].usage_count =>
             \E p \in Workers : w[p].t = t /\ w[p].pc \in {"log_update", "incr"} /\ w[p].rl[1]

\* C11: a gate call that is to be denied (malformed or unknown credential,
\* subscription not active, allowance used up) appends no usage row and does
\* not raise usage_count; api_call rows come from admitted calls only.
C11_DeniedAppendsNothing == [][C11_Step]_vars

\* One step as monotonicity allows it: while cycle_start stays, usage_count
\* does not go down.
C12_Step ==
    \A t \in DOMAIN tenants \cap DOMAIN tenants' :
       tenants'[t].billing_start = tenants[t].billing_start =>
          tenants'[t].usage_count >= tenants[t].usage_count

C13_Inv == \A t \in DOMAIN tenants : tenants[t].billing_end > tenants[t].billing_start

\* The rollover's UPDATE starts the new cycle after the end of the closed one.
C13_Step ==
    \A p \in Workers :
       (w[p].pc = "cr_update" /\ w'[p].pc = "cr_prune") =>
          tenants'[w[p].t].billing_start > tenants[w[p].t].billing_end

\* C13: in every state every tenant has cycle_end > cycle_start, and each
\* rollover's new cycle_start is later than the cycle_end of the cycle it
\* closed.
C13_CycleOrdered == []C13_Inv /\ [][C13_Step]_vars

\* Usage rows of tenant t, stamped at or after lo, that were appended when the
\* cycle's usage had already reached the allowance then in force.
RowsOverAllowance(t, lo) ==
    CountRows(usage_logs, {r \in DOMAIN usage_logs :
                              r.tenant_id = t /\ r.timestamp >= lo /\ ~r.within})

\* The billing row a rollover writes counts as overage at most the usage that
\* was over the allowance in force when it was consumed.
C16_Step ==
    \A p \in Workers :
       C5_Appends(p) =>
          \A r \in DOMAIN billing_history' :
             (r \notin DOMAIN billing_history \/ billing_history'[r] > billing_history[r])
                => r.overage <= RowsOverAllowance(r.tenant_id, r.cycle_start)

\* C16: after a plan downgrade no retroactive overage is assessed: the billing
\* row written when the cycle rolls over does not count as overage the usage
\* that was within the allowance in force when it was consumed.
C16_NoRetroactiveOverage == [][C16_Step]_vars

\* A step that changes an existing tenant's row while no request is in
\* progress: a plan change.
PlanChangeStep(t) ==
    /\ Quiet /\ w' = w
    /\ t \in DOMAIN tenants /\ t \in DOMAIN tenants'
    /\ tenants'[t] # tenants[t]

\* What a plan change does to tenant t: the allowance is the new plan's; the
\* counter, the usage rows and the billing rows stay; a cycle kind that
\* differs from the tenant's re-initialises the cycle from now, and otherwise
\* the cycle stays as it is.
C17_Step ==
    \A t \in TenantIds :
       PlanChangeStep(t) =>
          /\ tenants'[t].rate_limit = PlanRateLimit(tenants'[t].plan_type)
          /\ tenants'[t].usage_count = tenants[t].usage_count
          /\ usage_logs' = usage_logs /\ billing_history' = billing_history
          /\ IF tenants'[t].billing_cycle # tenants[t].billing_cycle
             THEN /\ tenants'[t].billing_start = now'
                  /\ tenants'[t].billing_end = get_next_billing_date(now', tenants'[t].billing_cycle)
                  /\ tenants'[t].last_reset = now'
             ELSE /\ tenants'[t].billing_start = tenants[t].billing_start
                  /\ tenants'[t].billing_end = tenants[t].billing_end
                  /\ tenants'[t].last_reset = tenants[t].last_reset

\* C17: change_plan sets plan and allowance to the new plan's values,
\* leaves usage_count, usage rows and billing rows alone, and re-initialises
\* the cycle from now when, and only when, a cycle kind is supplied that
\* differs from the tenant's.
C17_PlanChangeFrame == [][C17_Step]_vars

\* The cycle end of a monthly cycle that starts at instant start: the same day
\* of the month and time of day in the following month, the day clamped to
\* that month's last day.
C14_Monthly(start, end) ==
    LET c == DateOfDay(DayOf(start))
        e == DateOfDay(DayOf(end))
    IN  /\ e.m = (IF c.m = 12 THEN 1 ELSE c.m + 1)
        /\ e.y = (IF c.m = 12 THEN c.y + 1 ELSE c.y)
        /\ e.d = (IF c.d <= DaysInMonth(e.y, e.m) THEN c.d ELSE DaysInMonth(e.y, e.m))
        /\ SubOf(end) = SubOf(start)

\* C14: next_boundary(t, monthly) is the same day of the month and time in the
\* month after t, clamped to that month's last day: 2024-01-31 (day 395)
\* gives 2024-02-29 (day 424), 2023-01-31 (day 30) gives 2023-02-28 (day 58),
\* and a tenant registered on 2024-01-10 (day 374) gets cycle_end 2024-02-10
\* (day 405).
C14_MonthlyBoundary ==
    \A t \in DOMAIN tenants :
       (tenants[t].billing_cycle = "monthly" /\ tenants[t].billing_start # Null) =>
          /\ C14_Monthly(tenants[t].billing_start, tenants[t].billing_end)
          /\ DayOf(tenants[t].billing_start) = 395 => DayOf(tenants[t].billing_end) = 424
          /\ DayOf(tenants[t].billing_start) = 30 => DayOf(tenants[t].billing_end) = 58
          /\ tenants[t].billing_start = 374 * SubsPerDay => tenants[t].billing_end = 405 * SubsPerDay

\* A monthly tenant registered on 2024-01-31, whose cycle ends on 2024-02-29.
C14_Witness ==
    \E t \in DOMAIN tenants :
       /\ tenants[t].billing_cycle = "monthly"
       /\ DayOf(tenants[t].billing_start) = DayOrd(2024, 1, 31)
       /\ DayOf(tenants[t].billing_end) = DayOrd(2024, 2, 29)

\* C18: a credential handed out by registration resolves through the gate to
\* the tenant it was issued for; after a rotation the new credential resolves
\* to that tenant and every prior credential of the tenant resolves to no
\* tenant.
C18_Step ==
    \A p \in Workers :
       (w[p].pc = "lookup" /\ w'[p].pc # "lookup") =>
          \A t \in DOMAIN issued : \A i \in 1..Len(issued[t]) :
             issued[t][i] = w[p].key =>
                IF i = Len(issued[t])
                THEN w'[p].pc = "cr_read" /\ w'[p].t = t
                ELSE w'[p].pc = "done" /\ w'[p].ret = "none"

C19_OnlyDigestPersisted ==
    \A t \in DOMAIN tenants :
       /\ \E k \in AllCredentials : tenants[t].api_key = hash_api_key(k)
       /\ \A k \in AllCredentials : tenants[t].api_key # api_key_text(k)

\* The charge the contract sets for an overage under a plan: every started
\* block of 100 costs the plan's overage_rate.
BlockCharge(overage, plan_type) ==
    Hundredths(((overage + 99) \div 100) * OverageRate(plan_type))

\* C15: every overage charge the service reports for a cycle, from
\* calculate_overage_charges or as the charge of a record of the billing
\* history, equals ceil(overage / 100) times the plan's overage_rate, and is
\* zero when the usage does not exceed the allowance (an overage of 237 on
\* the pro plan is charged 3 blocks, 15).
C15_ChargeIsBlocksTimesRate ==
    \A p \in Workers :
       /\ (w[p].pc = "done" /\ w[p].kind = "overage") =>
             \A c \in w[p].resp :
                /\ c.total_charge = BlockCharge(Max(0, c.usage - c.limit), tenants[w[p].t].plan_type)
                /\ c.usage <= c.limit => c.total_charge = 0
       /\ (w[p].pc = "done" /\ w[p].kind = "billing_history") =>
             \A h \in w[p].resp :
                /\ h.overage_charge = BlockCharge(h.overage, tenants[w[p].t].plan_type)
                /\ h.overage = 0 => h.overage_charge = 0

\* C20: for any tenant and URL, POST /sites calls with that pair, one after
\* another or concurrent, leave exactly one site row for the pair; the call
\* that made the row is answered 200, every other call is answered 400
\* (duplicate_resource), and no second initial audit is queued.
C20_OneSitePerPair ==
    /\ \A t \in TenantIds, url \in Urls :
          /\ CountRows(sites, SitesOf(t, url)) <= 1
          /\ CountRows(tasks, {k \in DOMAIN tasks : k.tenant_id = t /\ k.url = url}) <= 1
    /\ \A p \in Workers :
          (w[p].pc = "done" /\ w[p].kind = "add_site") =>
             /\ CountRows(sites, SitesOf(w[p].t, w[p].url)) = 1
             /\ w[p].ret \in {"200", "400"}

\* C21: POST /tenants with an email that is already registered is rejected
\* with status 400 (duplicate_resource) and leaves the tenants and their
\* credentials unchanged.
C21_Step ==
    \A p \in Workers :
       (w[p].pc = "idle" /\ w'[p].kind = "post_tenants" /\ EmailTaken(w'[p].email))
          => /\ w'[p].ret = "400"
             /\ tenants' = tenants
             /\ issued' = issued

C21_DuplicateEmailRejected == [][C21_Step]_vars

\* C25: for a single page the analyzer's score is 100 less 20 for an absent
\* title, 10 for a title shorter than 30, 20 for an absent meta description,
\* 10 for a meta description that is present and shorter than 70, and 15 for
\* fewer than 300 words, clamped to [0, 100], with one issue for each rule
\* that applies; the page with an empty title, an adequate meta description
\* and 120 words scores 55 with three issues.
C25_SinglePageScore ==
    \A p \in Workers :
       (w[p].pc = "done" /\ w[p].kind = "analyze_seo") =>
          \A r \in w[p].resp :
             LET page == w[p].pages[1]
                 rules == <<page.title = 0, page.title < 30, page.meta_description = 0,
                            page.meta_description # 0 /\ page.meta_description < 70,
                            page.word_count < 300>>
                 cost == <<20, 10, 20, 10, 15>>
                 gross == 100 - Penalty(rules[1], cost[1]) - Penalty(rules[2], cost[2])
                              - Penalty(rules[3], cost[3]) - Penalty(rules[4], cost[4])
                              - Penalty(rules[5], cost[5])
             IN  /\ r.seo_score = Min(100, Max(0, gross))
                 /\ Len(r.issues) = Cardinality({i \in 1..5 : rules[i]})
                 /\ (page = [title |-> 0, meta_description |-> 70, word_count |-> 120])
                       => (r.seo_score = 55 /\ Len(r.issues) = 3)

SiteOf(p) == CHOOSE r \in SiteRows(w[p].site_id) : TRUE

AuditCompleted(rows) == CountRows(rows, {r \in DOMAIN rows : r.action = "audit_completed"})

\* C23: an audit run that passes the quota gate and whose crawl, analysis
\* and persistence all succeed takes the site to running and then to
\* completed, writes exactly one audit row for the site and its tenant,
\* tagged with the current cycle, sets last_audit and last_score to that
\* audit, raises audit_count by exactly one, and records exactly one
\* audit_completed usage event, after the audit row has been persisted.
C23_Step ==
    \A p \in Workers :
       /\ (w[p].pc = "ra_update" /\ w'[p].pc = "ra_log") =>
             /\ SiteOf(p).status = "running"
             /\ \E r \in DOMAIN sites' : r.id = w[p].site_id /\ r.status = "completed"
       /\ (w[p].pc = "ra_log" /\ w'[p].pc = "ra_bump") =>
             /\ \E a \in DOMAIN audits : a.id = w[p].audit_id
             /\ AuditCompleted(usage_logs') = AuditCompleted(usage_logs) + 1
       /\ (w[p].pc = "ra_bump" /\ w'[p].pc = "done") =>
             /\ w'[p].ret = "completed"
             /\ BagCardinality(audits') = w[p].was.audits + 1
             /\ AuditCompleted(usage_logs') = w[p].was.events + 1
             /\ \E a \in DOMAIN audits' :
                   /\ a.id = w[p].audit_id
                   /\ a.site_id = w[p].site_id
                   /\ a.tenant_id = w[p].t
                   /\ a.billing_cycle = CycleTag(now)
                   /\ audits'[a] = 1
             /\ \E r \in DOMAIN sites' :
                   /\ r.id = w[p].site_id
                   /\ r.tenant_id = w[p].t
                   /\ r.status = "completed"
                   /\ r.last_audit = w[p].audit_id
                   /\ r.last_score = w[p].analysis.score
                   /\ r.audit_count = w[p].was.audit_count + 1

C23_SuccessfulAudit == [][C23_Step]_vars

\* The audit of scenario S4 has completed: one page, score 55, three issues,
\* audit_count 1.
C23_Witness ==
    \E p \in Workers :
       /\ w[p].pc = "done" /\ w[p].kind = "audit" /\ w[p].ret = "completed"
       /\ w[p].analysis = [score |-> [num |-> 55, den |-> 1],
                           issues |-> <<"missing_title", "short_title", "thin_content">>]
       /\ \E r \in SiteRows(w[p].site_id) : r.status = "completed" /\ r.audit_count = 1

\* C24: when the crawler's fetch of the start URL times out, or the crawl,
\* the analysis, the INSERT of the audit row or the UPDATE of the site
\* raises, the run ends with the site failed, no audit row written, no
\* audit_completed event recorded and audit_count as it was.
C24_FailedAuditLeavesNothing ==
    \A p \in Workers :
       (/\ w[p].pc = "done" /\ w[p].kind = "audit"
        /\ \/ w[p].fetch = "timeout"
           \/ w[p].raised \in {"ra_crawl", "ra_analyze", "ra_insert", "ra_update"})
          => /\ SiteOf(p).status = "failed"
             /\ SiteOf(p).audit_count = w[p].was.audit_count
             /\ BagCardinality(audits) = w[p].was.audits
             /\ AuditCompleted(usage_logs) = w[p].was.events

\* The run of worker p was denied by the re-check of the quota gate.
Denied(p) == w[p].kind = "audit" /\ Len(w[p].rl) = 2 /\ ~w[p].rl[1]

\* C29: when the re-check of the quota gate at the start of a run denies,
\* the site is marked failed and the run exits: no step of it sets the site
\* to running, crawls, writes an audit row or records a usage event.
C29_Step ==
    \A p \in Workers :
       Denied(p) =>
          /\ audits' = audits
          /\ usage_logs' = usage_logs
          /\ tenants' = tenants
          /\ w'[p].fetch = "none"
          /\ \A r \in DOMAIN sites' : r.id = w[p].site_id => r.status # "running"
          /\ (w[p].pc # "done" /\ w'[p].pc = "done") =>
                \E r \in DOMAIN sites' : r.id = w[p].site_id /\ r.status = "failed"

C29_DeniedRunOnlyFails == [][C29_Step]_vars

\* A run was denied because the subscription is not active, and is over.
C29_Witness ==
    \E p \in Workers :
       /\ w[p].pc = "done" /\ Denied(p)
       /\ w[p].rl[2] = "subscription_inactive"
       /\ SiteOf(p).status = "failed"
       /\ BagCardinality(audits) = w[p].was.audits
       /\ BagCardinality(usage_logs) = w[p].was.usage

\* C30: every run calls the crawler with the max_pages_per_audit of the
\* tenant's plan as the page cap.
C30_CrawlCapIsPlanCap ==
    \A p \in Workers :
       (w[p].kind = "audit" /\ w[p].fetch # "none" /\ w[p].t \in DOMAIN tenants) =>
          w[p].max_pages = PlanMaxPages(tenants[w[p].t].plan_type)

\* The site-scoped requests.
SiteScoped == {"get_site", "get_site_audits", "trigger_audit"}

\* C22: a request of tenant A that names a site of another tenant B (GET
\* /sites/{id}, GET /sites/{id}/audits, POST /sites/{id}/audit) ends in 404,
\* returns no site or audit row of B, queues no audit and changes no site;
\* GET /sites of A lists A's sites and only those.
C22_Step ==
    \A p \in Workers :
       /\ (/\ w[p].kind = "gate" /\ w'[p].kind \in SiteScoped
           /\ \E r \in DOMAIN sites : r.id = w'[p].site_id /\ r.tenant_id # w'[p].t)
             => /\ w'[p].pc = "done" /\ w'[p].ret = "404"
                /\ w'[p].resp = {}
                /\ tasks' = tasks
                /\ sites' = sites
                /\ audits' = audits
                /\ usage_logs' = usage_logs
       /\ w'[p].kind \in SiteScoped =>
             \A r \in w'[p].resp : r.tenant_id = w'[p].t
       /\ (w[p].kind = "gate" /\ w'[p].kind = "list_sites")
             => w'[p].resp = {r \in DOMAIN sites : r.tenant_id = w'[p].t}
       /\ (w[p].kind = "trigger_audit" /\ tasks' # tasks)
             => \A k \in DOMAIN tasks' :
                   tasks'[k] > (IF k \in DOMAIN tasks THEN tasks[k] ELSE 0) =>
                      /\ k.tenant_id = w[p].t
                      /\ \E r \in DOMAIN sites : r.id = k.site_id /\ r.tenant_id = w[p].t

C22_TenantIsolation == [][C22_Step]_vars

\* A tenant has asked for the audits of another tenant's audited site and
\* got 404 and nothing else.
C22_Witness ==
    \E p \in Workers :
       /\ w[p].pc = "done" /\ w[p].kind = "get_site_audits" /\ w[p].ret = "404"
       /\ \E r \in DOMAIN sites :
             /\ r.id = w[p].site_id /\ r.tenant_id # w[p].t
             /\ \E a \in DOMAIN audits : a.site_id = r.id
       /\ \E r \in DOMAIN sites : r.tenant_id = w[p].t

\* C27: the billing record of the closing cycle is committed before the
\* tenant's cycle fields are advanced and usage_count is zeroed, and it stays:
\* whatever step a request dies at, no step replaces an expired cycle and
\* zeroes the counter while the billing history has no record of that cycle.
C27_Step ==
    /\ \A r \in DOMAIN billing_history :
          r \in DOMAIN billing_history' /\ billing_history'[r] >= billing_history[r]
    /\ \A t \in DOMAIN tenants :
          (/\ tenants[t].billing_end # Null
           /\ tenants[t].billing_end < now
           /\ tenants'[t].billing_start # tenants[t].billing_start)
             => /\ tenants'[t].usage_count = 0
                /\ \E r \in DOMAIN billing_history :
                      /\ r.tenant_id = t
                      /\ r.cycle_start = tenants[t].billing_start
                      /\ r.cycle_end = tenants[t].billing_end

C27_RecordBeforeReset == [][C27_Step]_vars

\* A rollover has just advanced the cycle and zeroed the counter of a tenant
\* that had used the API, and the record of the closed cycle is there.
C27_Witness ==
    \E p \in Workers :
       /\ w[p].pc = "cr_prune"
       /\ w[p].usage > 0
       /\ tenants[w[p].t].billing_start = w[p].nowr
       /\ tenants[w[p].t].usage_count = 0
       /\ \E r \in DOMAIN billing_history :
             /\ r.tenant_id = w[p].t
             /\ r.cycle_start = w[p].snap.billing_start
             /\ r.cycle_end = w[p].snap.billing_end
             /\ r.usage = w[p].usage

\* C28: cycles roll for tenants whose subscription is not active too: a gate
\* call with the valid credential of an inactive tenant whose cycle_end has
\* passed runs the rollover (billing record, new cycle) and is then denied
\* with subscription_inactive.
C28_Step ==
    \A p \in Workers :
       LET t == w[p].t IN
       (w[p].kind = "gate" /\ t \in DOMAIN tenants /\ tenants[t].subscription_status # "active")
          => /\ (w[p].pc = "cr_read" /\ tenants[t].billing_end # Null /\ now > tenants[t].billing_end)
                   => w'[p].pc = "cr_count"
             /\ (w[p].pc # "done" /\ w'[p].pc = "done" /\ w[p].rolled)
                   => /\ \E r \in DOMAIN billing_history : r.tenant_id = t
                      /\ tenants'[t].billing_end > now
                      /\ w'[p].rl = <<FALSE, "subscription_inactive">>
                      /\ w'[p].ret # "tenant"

C28_InactiveRollsThenDenied == [][C28_Step]_vars

\* Site id is in the given status.
SiteIn(id, statuses) == \E r \in DOMAIN sites : r.id = id /\ r.status \in statuses

\* C31: every site that enters status running eventually reaches completed
\* or failed, whether the run goes on to its end or the process terminates
\* in the middle of it and is started again.
C31_RunningEnds ==
    \A id \in 1..2 : SiteIn(id, {"running"}) ~> SiteIn(id, {"completed", "failed"})

\* The URLs a crawl of the site can come to: the start URL and, from every
\* URL that serves a 200 page, the internal URLs its links lead to (the hrefs
\* that begin with #, javascript: or mailto: are not links).
RECURSIVE Reachable(_, _)
Reachable(site, seen) ==
    LET more == {urljoin(u, h) :
                    u \in {x \in seen : Get(site, x).status = "200"},
                    h \in {x \in Hrefs : x.prefix \notin {"#", "javascript:", "mailto:"}}}
        step == seen \cup {v \in more :
                             /\ v.host = StartUrl.host
                             /\ \E u \in seen : /\ Get(site, u).status = "200"
                                                /\ \E h \in Get(site, u).links :
                                                      /\ h.prefix \notin {"#", "javascript:", "mailto:"}
                                                      /\ urljoin(u, h) = v}
    IN  IF step = seen THEN seen ELSE Reachable(site, step)

Urls200(results) == {results[i].url : i \in 1..Len(results)}

C32_Returned ==
    \A p \in Workers :
       w[p].kind = "crawl" =>
          LET c == w[p].crawl IN
          /\ Len(c.results) <= w[p].max_pages
          /\ \A i \in 1..Len(c.results) :
                c.results[i].status_code = "200" /\ Get(c.site, c.results[i].url).status = "200"
          /\ (w[p].pc = "done") =>
                /\ w[p].ret = "results"
                /\ Len(c.results) < w[p].max_pages =>
                      /\ Reachable(c.site, {c.start}) \subseteq c.visited
                      /\ {u \in Reachable(c.site, {c.start}) : Get(c.site, u).status = "200"}
                            \subseteq Urls200(c.results)

\* C32: for every site, every page cap from 0 on and every pattern of failed
\* and non-200 fetches, crawl terminates, without raising, and returns at
\* most max_pages pages, each of status 200; a failed or non-200 fetch is
\* skipped, and unless the cap is reached every internal page that can be
\* reached is crawled all the same.
C32_CrawlTerminates ==
    /\ []C32_Returned
    /\ \A p \in Workers : (w[p].pc = "crawl") ~> (w[p].pc = "done")

\* A crawl has returned in which a fetch timed out and a later fetch brought
\* a page.
C32_Witness ==
    \E p \in Workers :
       /\ w[p].pc = "done" /\ w[p].kind = "crawl"
       /\ \E i, j \in 1..Len(w[p].crawl.fetched) :
             /\ i < j
             /\ Get(w[p].crawl.site, w[p].crawl.fetched[i]).status = "timeout"
             /\ Get(w[p].crawl.site, w[p].crawl.fetched[j]).status = "200"
       /\ Len(w[p].crawl.results) = 2

\* C33: during one crawl no URL is fetched twice and none appears twice in
\* the result; every URL fetched other than the start URL has the start
\* URL's host and was found as a link on a 200 page fetched before it; the
\* targets of links that begin with #, javascript: or mailto: are never
\* fetched.
C33_FetchedOnceAndInternal ==
    \A p \in Workers :
       w[p].kind = "crawl" =>
          LET c == w[p].crawl
              special(u) == \/ u.frag # ""
                            \/ u.host = ""
          IN
          /\ \A i, j \in 1..Len(c.fetched) : c.fetched[i] = c.fetched[j] => i = j
          /\ \A i, j \in 1..Len(c.results) : c.results[i].url = c.results[j].url => i = j
          /\ \A j \in 1..Len(c.fetched) :
                /\ ~special(c.fetched[j])
                /\ c.fetched[j] # c.start =>
                      /\ c.fetched[j].host = c.start.host
                      /\ \E i \in 1..(j - 1) :
                            /\ Get(c.site, c.fetched[i]).status = "200"
                            /\ \E h \in Get(c.site, c.fetched[i]).links :
                                  urljoin(c.fetched[i], h) = c.fetched[j]

\* A crawl has fetched a page that carries a fragment, a script and a mail
\* link besides a link to another page, and then that other page.
C33_Witness ==
    \E p \in Workers :
       /\ w[p].pc = "done" /\ w[p].kind = "crawl"
       /\ Len(w[p].crawl.fetched) >= 2
       /\ Get(w[p].crawl.site, w[p].crawl.fetched[1]).links =
             {Href("#", "top"), Href("mailto:", "a@x"), Href("/", "b")}
       /\ w[p].crawl.fetched[2] = Url("h", "b", "")

\* C34: deleting a tenant removes its audits, then its sites, then its
\* usage events, then its billing records, and only then the tenant row, as
\* one atomic operation: afterwards no audit, site, usage event or billing
\* record refers to the tenant, and when a step fails nothing is removed.
C34_Step ==
    \A p \in Workers :
       w[p].kind = "delete_tenant" =>
          /\ (w[p].pc # "dt_commit" \/ w'[p].ret # "ok")
                => UNCHANGED <<tenants, usage_logs, billing_history, sites, audits>>
          /\ (w[p].pc = "dt_commit" /\ w'[p].ret = "ok")
                => /\ w[p].deleted = <<"audits", "sites", "usage_logs", "billing_history", "tenants">>
                   /\ w[p].t \notin DOMAIN tenants'
                   /\ RowsOf(audits', w[p].t) = {}
                   /\ RowsOf(sites', w[p].t) = {}
                   /\ RowsOf(usage_logs', w[p].t) = {}
                   /\ RowsOf(billing_history', w[p].t) = {}

C34_DeleteInOrder == [][C34_Step]_vars

\* A plan change or a re-application of the allowances is between two of its
\* statements.
PlanChangeInProgress ==
    \E p \in Workers : w[p].pc \in {"ut_limit", "ap_update"}

\* C35: whenever no plan change is in progress, the allowance of every
\* tenant is the allowance of its plan in the catalog, that of the free plan
\* for a plan id the catalog does not have: after registration with any plan
\* id, after update_tenant and after the allowances have been re-applied.
C35_AllowanceMatchesPlan ==
    ~PlanChangeInProgress =>
       \A t \in DOMAIN tenants : tenants[t].rate_limit = PlanRateLimit(tenants[t].plan_type)

\* The calendar date on which the cycle of tenant t ends.
EndDate(t) == DateOfDay(DayOf(tenants[t].billing_end))

\* C36: a monthly cycle that started on day 31 ends on the last day of the
\* next month, and day 31 stays the anchor of the cycles that follow: every
\* cycle of a tenant registered on a 31st ends on day 31, or on the last day
\* of a shorter month (Jan 31, Feb 29, Mar 31, Apr 30, ...).
C36_DayOfMonthPreserved ==
    \A t \in DOMAIN tenants :
       (tenants[t].billing_cycle = "monthly" /\ tenants[t].billing_end # Null) =>
          EndDate(t).d = DaysInMonth(EndDate(t).y, EndDate(t).m)

\* C37: get_next_billing_date gives, for every start instant and both cycle
\* kinds, an instant strictly later than the start, the yearly cycle from
\* 29 February included, so a registration on any date leaves the tenant
\* with its cycle dates.
C37_NextDateAlwaysValid ==
    /\ \A c \in BILLING_CYCLES :
          /\ get_next_billing_date(now, c) # ValueError
          /\ get_next_billing_date(now, c) > now
    /\ \A t \in DOMAIN tenants :
          /\ tenants[t].billing_start # Null
          /\ tenants[t].billing_end # Null

\* The audit rows stored for site id.
AuditsOf(id) == {a \in DOMAIN audits : a.site_id = id}

\* No audit of site id is queued or running.
NoRunOf(id) ==
    /\ \A k \in DOMAIN tasks : k.site_id # id
    /\ \A p \in Workers : ~(w[p].kind = "audit" /\ w[p].site_id = id)

\* C38: when the audit runs of a site overlap, then after all of them have
\* finished the site's audit_count is the number of audit rows stored for
\* the site, and last_audit and last_score are those of the audit row that
\* was persisted last.
C38_OverlappingRunsAgree ==
    \A r \in DOMAIN sites :
       NoRunOf(r.id) =>
          /\ r.audit_count = CountRows(audits, AuditsOf(r.id))
          /\ \A a \in AuditsOf(r.id) :
                (\A b \in AuditsOf(r.id) : b.id <= a.id) =>
                   /\ r.last_audit = a.id
                   /\ r.last_score = a.score

\* A POST /sites request stores a site only when the tenant may add one.
C39_Step ==
    \A p \in Workers :
       (w[p].pc = "as_insert" /\ sites' # sites) => can_add_site(w[p].t)[1]

\* C39: in every reachable state the number of sites of a tenant is at most
\* the max_sites of its plan, and POST /sites creates no site once the
\* tenant has that many.
C39_SitesWithinCap ==
    /\ [](\A t \in DOMAIN tenants : CurrentSites(t) <= PlanMaxSites(tenants[t].plan_type))
    /\ [][C39_Step]_vars

====
